---- MODULE Spec2Model ----
(***************************************************************************)
(* Recording-to-transcript pipeline of tangerine (src-tauri):              *)
(*   pipeline.rs       SharedPipeline / PipelineInner state machine        *)
(*   stt/retry.rs      with_retry, is_retryable_error, delay_for_attempt   *)
(*   audio_capture.rs  AudioCapture, run_capture_thread, VAD worker        *)
(*                                                                         *)
(* Spec         the orchestrator: every pipeline operation is one critical *)
(*              section on the pipeline mutex; stop_and_transcribe is a    *)
(*              task that suspends between its critical sections.          *)
(* CaptureSpec  one capture session at thread granularity (capture worker, *)
(*              VAD worker, audio callback, the caller of stop()).         *)
(***************************************************************************)
EXTENDS Integers, Sequences, FiniteSets, TLC

\* ------------------------------------------------------------------------
\* Bounds of the model
\* ------------------------------------------------------------------------
\* largest attempt index delay_for_attempt is asked about
MaxAttemptIndex == 33
\* number of start_recording calls that create a session (fresh tokens)
MaxSessions == 2
\* number of stop_and_transcribe calls that can be in progress together
MaxTasks == 1
\* largest WAV size (abstract bytes) a stopped capture yields
MaxWav == 2
\* cap on the chunks queued in the (unbounded) mpsc channel to the VAD worker
MaxQueue == 3
\* cap on the VAD events queued in the (unbounded) event channel
MaxEvents == 2
\* capacity of the AudioBuffer (max_samples), in chunks
MaxBuffer == 3
\* number of threads that query the pipeline state together
MaxCallers == 3
\* number of queries each of them makes
MaxQueryCalls == 2
\* longest slice given to AudioBuffer::append, and the samples appended in all
MaxSlice == 3
MaxAppended == 6
\* number of frames given to the voice activity detector
MaxFrames == 6
\* samples in one call of VadFrameProcessor::process
MaxChunk == 4
\* samples given to one VadFrameProcessor
MaxInput == 8
\* calls of VadFrameProcessor::process
MaxCalls == 4
\* files in the recordings directory
MaxFiles == 4
\* the modification times of the files
MaxMtime == 2
\* number of resets of the voice activity detector
MaxResets == 1
\* number of AudioCapture::start calls on one AudioCapture
MaxCaptures == 2
\* capacity of the request log store (the source keeps 100 logs)
MAX_LOGS == 2
\* number of start_request calls
MaxRequests == 3

Tasks == 1..MaxTasks
Callers == 1..MaxCallers
NoToken == 0
None == "None"

Min(a, b) == IF a <= b THEN a ELSE b

\* ------------------------------------------------------------------------
\* Duration and u32 arithmetic (std): values are naturals written in nine
\* limbs of four decimal digits, least significant first; a Duration is a
\* whole number of milliseconds
\* ------------------------------------------------------------------------
Limb == 1..9

RECURSIVE Carry(_, _, _)
Carry(raw, i, c) ==
    IF i \notin Limb THEN <<>>
    ELSE <<(raw[i] + c) % 10000>> \o Carry(raw, i + 1, (raw[i] + c) \div 10000)

\* the natural n, and Duration::from_millis(n)
Big(n) == Carry([i \in Limb |-> IF i = 1 THEN n ELSE 0], 1, 0)
Millis(n) == Big(n)

BigAdd(a, b) == Carry([i \in Limb |-> a[i] + b[i]], 1, 0)
BigDouble(a) == BigAdd(a, a)

RECURSIVE Pow2(_)
Pow2(n) == IF n = 0 THEN 1 ELSE 2 * Pow2(n - 1)

RECURSIVE Conv(_, _, _, _)
Conv(a, b, k, i) ==
    IF i > k THEN 0 ELSE a[i] * b[k - i + 1] + Conv(a, b, k, i + 1)

\* exact for a below 10^24 and b below 10^12
BigMul(a, b) == Carry([k \in Limb |-> Conv(a, b, k, 1)], 1, 0)

\* 2^n for n up to 60
BigPow2(n) ==
    IF n <= 30 THEN Big(Pow2(n)) ELSE BigMul(Big(Pow2(30)), Big(Pow2(n - 30)))

RECURSIVE BigLeqFrom(_, _, _)
BigLeqFrom(a, b, i) ==
    IF i \notin Limb THEN TRUE
    ELSE IF a[i] # b[i] THEN a[i] < b[i]
    ELSE BigLeqFrom(a, b, i - 1)

BigLeq(a, b) == BigLeqFrom(a, b, 9)
BigMin(a, b) == IF BigLeq(a, b) THEN a ELSE b

\* u32::MAX = 2^32 - 1
u32_MAX == BigAdd(BigDouble(Big(2147483647)), Big(1))

\* Duration::MAX = u64::MAX seconds and 999 milliseconds
Duration_MAX == <<5999, 5161, 7095, 4073, 4674, 184, 0, 0, 0>>

\* 2u32.saturating_pow(n): 2^n, or u32::MAX once 2^n does not fit 32 bits
pow2_wrapping(n) == IF n < 32 THEN BigPow2(n) ELSE Big(0)

saturating_pow2(n) == IF n < 32 THEN BigPow2(n) ELSE u32_MAX

\* Duration::saturating_mul(rhs: u32)
saturating_mul(d, k) ==
    IF BigLeq(BigMul(d, k), Duration_MAX) THEN BigMul(d, k) ELSE Duration_MAX

\* ------------------------------------------------------------------------
\* PipelineState and its guards (pipeline.rs 71-99)
\* ------------------------------------------------------------------------
PipelineState == {"Idle", "Recording", "Transcribing", "Error"}

can_start_recording(s) == s \in {"Idle", "Error"}

can_stop_recording_or_transcribing(s) == s \in {"Recording", "Transcribing"}

can_stop_recording(s) == s = "Recording"

can_cancel_recording_only(s) == s = "Recording"

can_cancel(s) == s \in {"Recording", "Transcribing"}

\* ------------------------------------------------------------------------
\* RetryConfig (stt/retry.rs)
\* ------------------------------------------------------------------------
delay_for_attempt_constant(rc, attempt) == BigMin(rc.initial_delay, rc.max_delay)

delay_for_attempt(rc, attempt) ==
    BigMin(saturating_mul(rc.initial_delay, saturating_pow2(attempt)), rc.max_delay)

\* An SttError is [kind, status, msg]; msg is the set of marker substrings
\* the (lower-cased) message text contains, which is all that str::contains
\* is asked about; status is the HTTP status an Api error was built from (0
\* otherwise), which the error itself does not carry.
RetrySignals == {"500", "502", "503", "504", "429", "rate limit", "too many requests"}

is_retryable_error(e) ==
    CASE e.kind = "Network" -> TRUE
      [] e.kind = "Timeout" -> TRUE
      [] e.kind = "Api"     -> (e.msg \cap RetrySignals) # {}
      [] e.kind = "Audio"   -> FALSE
      [] e.kind = "Config"  -> FALSE

ErrNetwork == [kind |-> "Network", status |-> 0, msg |-> {}]
ErrTimeout == [kind |-> "Timeout", status |-> 0, msg |-> {}]
ErrAudio   == [kind |-> "Audio", status |-> 0, msg |-> {}]
ErrConfig  == [kind |-> "Config", status |-> 0, msg |-> {}]
NoErr      == [kind |-> "None", status |-> 0, msg |-> {}]

\* the markers in the text of a response status ("429 Too Many Requests",
\* "500 Internal Server Error", "400 Bad Request", ...)
StatusMarkers(status) ==
    CASE status = 429 -> {"429", "too many requests"}
      [] status = 500 -> {"500"}
      [] status = 502 -> {"502"}
      [] status = 503 -> {"503"}
      [] status = 504 -> {"504"}
      [] OTHER -> {}

\* the providers' error for a response that is not a success (stt/groq.rs
\* 66-76): Api(format!("... API error ({status}): {body}")); body is the set
\* of markers in the response text
ApiError(status, body) ==
    [kind |-> "Api", status |-> status, msg |-> StatusMarkers(status) \cup body]
NoText     == ""

\* what one provider.transcribe call can answer: Ok(text) or Err(SttError).
\* The text a call returns names the attempt that made the call.
AttemptText(attempt) ==
    CASE attempt = 0 -> "text of attempt 0"
      [] attempt = 1 -> "text of attempt 1"
      [] attempt = 2 -> "text of attempt 2"
      [] OTHER -> "text of a later attempt"
ProviderErrors == {ErrNetwork, ErrConfig}
SttOk(x) == [ok |-> TRUE, text |-> x, err |-> NoErr]
SttErr(e) == [ok |-> FALSE, text |-> NoText, err |-> e]
ProviderResults(attempt) ==
    {SttOk(AttemptText(attempt))} \cup {SttErr(e) : e \in ProviderErrors}
NoAnswer == [ok |-> FALSE, text |-> NoText, err |-> NoErr]

\* the text a successful format_text call returns for a transcript
Formatted(transcript) ==
    CASE transcript = "text of attempt 0" -> "formatted text of attempt 0"
      [] transcript = "text of attempt 1" -> "formatted text of attempt 1"
      [] transcript = "text of attempt 2" -> "formatted text of attempt 2"
      [] OTHER -> "formatted text"

\* Option<T> of a record-valued T: <<>> is None, <<x>> is Some(x)
Nothing == <<>>
Some(x) == <<x>>

\* ------------------------------------------------------------------------
\* PipelineConfig (pipeline.rs 116-158)
\* ------------------------------------------------------------------------
CfgA == [stt_provider |-> "groq", stt_api_key |-> "key",
         retry_config |-> [max_retries |-> 2, initial_delay |-> Millis(500),
                           max_delay |-> Millis(10000), retry_on_rate_limit |-> TRUE],
         vad_enabled |-> FALSE, transcription_timeout |-> 60000,
         max_recording_bytes |-> 2,
         llm_config |-> [enabled |-> FALSE, api_key |-> "", provider |-> "openai"]]

CfgB == [stt_provider |-> "openai", stt_api_key |-> "key",
         retry_config |-> [max_retries |-> 2, initial_delay |-> Millis(500),
                           max_delay |-> Millis(800), retry_on_rate_limit |-> FALSE],
         vad_enabled |-> TRUE, transcription_timeout |-> 30000,
         max_recording_bytes |-> 1,
         llm_config |-> [enabled |-> TRUE, api_key |-> "key", provider |-> "openai"]]

CfgC == [stt_provider |-> "groq", stt_api_key |-> "",
         retry_config |-> [max_retries |-> 0, initial_delay |-> Millis(250),
                           max_delay |-> Millis(250), retry_on_rate_limit |-> TRUE],
         vad_enabled |-> FALSE, transcription_timeout |-> 60000,
         max_recording_bytes |-> 0,
         llm_config |-> [enabled |-> TRUE, api_key |-> "", provider |-> "ollama"]]

Configs == {CfgA, CfgB, CfgC}

\* PipelineInner::initialize_providers: the provider that set_current finds
\* registered (None when the key is empty or the name unknown) ...
registered_provider(c) ==
    IF c.stt_provider \in {"openai", "groq", "deepgram"} /\ c.stt_api_key # ""
    THEN c.stt_provider ELSE None

\* ... and the LLM provider it creates
created_llm_provider(c) ==
    IF c.llm_config.enabled /\ c.llm_config.api_key # "" THEN c.llm_config.provider
    ELSE IF c.llm_config.enabled /\ c.llm_config.provider = "ollama" THEN "ollama"
    ELSE None

\* ------------------------------------------------------------------------
\* State
\* ------------------------------------------------------------------------
VARIABLES
    \* PipelineInner
    state,          \* inner.state
    cancel_token,   \* inner.cancel_token: NoToken or a token id
    config,         \* inner.config
    stt_current,    \* inner.stt_registry.get_current(): provider name or None
    llm_provider,   \* inner.llm_provider: provider name or None
    capture,        \* inner.audio_capture.capture_handle: None or a handle
    \* the pipeline mutex: TRUE once a caller blocks for ever inside a
    \* critical section (it never unlocks)
    wedged,
    \* CancellationToken: ids handed out so far and the cancelled ones
    next_token,
    cancelled,
    \* stop_and_transcribe invocations
    tasks,
    \* history: id and start-time configuration of the latest session
    session,
    session_cfg,
    \* history: the last pipeline operation and the state it was called in
    last_op

pvars == <<state, cancel_token, config, stt_current, llm_provider, capture,
           wedged, next_token, cancelled, tasks, session, session_cfg, last_op>>

VARIABLES
    \* one capture session at thread granularity (audio_capture.rs)
    cap_vad,        \* vad_config.enabled of the session
    cap_pc,         \* capture worker (run_capture_thread)
    vad_pc,         \* VAD worker
    stop_pc,        \* the caller of AudioCapture::stop
    cmd_q,          \* CaptureCommand::Stop messages in command_rx
    vad_q,          \* chunks queued in vad_samples_rx
    senders,        \* live Sender handles of the VAD sample channel
    stream_alive,   \* the cpal stream (and with it the callback closure)
    event_q,        \* AudioCaptureEvents queued in event_rx
    buf_len,        \* length of the AudioBuffer, in chunks
    cap_session,    \* the number of AudioCapture::start calls so far
    buf_sessions,   \* history: the sessions whose chunks are in the AudioBuffer
    wav_out         \* the WAV stop_and_get_wav returned last

cvars == <<cap_vad, cap_pc, vad_pc, stop_pc, cmd_q, vad_q, senders,
           stream_alive, event_q, buf_len, cap_session, buf_sessions, wav_out>>

VARIABLES
    \* one use of the retry utilities on their own (stt/retry.rs)
    rtask,          \* a with_retry call: its policy, attempt, calls, sleeps, log
    rres,           \* what that call has returned (NoAnswer while it runs)
    r_n,            \* the attempt index delay_for_attempt was last asked about
    r_delay,        \* ... and the Duration it returned
    r_err,          \* the SttError is_retryable_error was last asked about
    r_retry         \* ... and what it answered

rvars == <<rtask, rres, r_n, r_delay, r_err, r_retry>>

VARIABLES
    \* callers of state(), is_recording() and is_error(): where each is,
    \* the query it makes, the last answer it got, the calls it has made
    queries

qvars == <<queries>>

VARIABLES
    \* an AudioBuffer on its own (audio_capture.rs 42-135)
    abuf,           \* the buffer
    appended,       \* history: the number of samples appended so far
    wav,            \* what to_wav_bytes returned last
    decoded         \* what reading these bytes back gave

bvars == <<abuf, appended, wav, decoded>>

VARIABLES
    \* a VoiceActivityDetector on its own (vad.rs 86-214)
    detector,       \* the detector
    vad_hist        \* history: the frames processed so far and the last call

vvars == <<detector, vad_hist>>

VARIABLES
    \* a RequestLogStore and the threads that use it (request_log.rs 189-282)
    store,          \* logs, current, the owners of their two mutexes
    log_threads     \* where each thread is, and what get_logs returned to it

lvars == <<store, log_threads>>

VARIABLES
    \* a VadFrameProcessor on its own (vad.rs 300-373)
    processor,      \* the processor
    proc_hist       \* history: what it was given and the last call

fvars == <<processor, proc_hist>>

VARIABLES
    \* a RecordingStore on its own (recordings.rs)
    rec_dir,        \* the entries of the recordings directory
    prune_hist      \* history: the last prune_to_max_files call

dvars == <<rec_dir, prune_hist>>

\* the variables of the components that are modelled on their own
uvars == <<qvars, bvars, vvars, lvars, fvars, dvars>>

vars == <<pvars, cvars, rvars, uvars>>


\* ------------------------------------------------------------------------
\* PipelineInner helpers (pipeline.rs 256-267)
\* ------------------------------------------------------------------------
reset_to_idle_keeps_token ==
    /\ state' = "Idle"
    /\ UNCHANGED cancel_token

reset_to_idle ==
    /\ state' = "Idle"
    /\ cancel_token' = NoToken

set_error_keeps_idle ==
    /\ state' = "Idle"
    /\ cancel_token' = NoToken

set_error ==
    /\ state' = "Error"
    /\ cancel_token' = NoToken

\* a state guard fails (lines 326-328, 352-354, 396-398): the error is
\* returned, nothing of the session is written
guard_rejects_with_error ==
    /\ state' = "Error"
    /\ cancel_token' = NoToken

guard_rejects == UNCHANGED <<state, cancel_token>>

\* the size check of a stopped recording (lines 359 and 411): a limit of 0
\* means no limit
too_large_zero_is_a_limit(w, max_bytes) == w > max_bytes

too_large(w, max_bytes) == max_bytes > 0 /\ w > max_bytes

\* history only: session_cfg is the configuration in force when the session
\* that is being recorded was started (Nothing when none is being recorded)
KeepSessionCfg ==
    session_cfg' = IF state' = "Recording" THEN session_cfg ELSE Nothing

\* history only: the operation that ran last, the state it was called in, the
\* token it found and what it returned ("hang": it never returns)
Op(name, ret, t) ==
    last_op' = [op |-> name, pre |-> state, ret |-> ret, wav |-> 0]

\* the same for a stop that obtained a WAV of w bytes
OpWav(name, ret, w) ==
    last_op' = [op |-> name, pre |-> state, ret |-> ret, wav |-> w]

\* ------------------------------------------------------------------------
\* AudioCapture as the orchestrator sees it (audio_capture.rs 228-319)
\* ------------------------------------------------------------------------
\* capture_handle is NoCapture (None) or Handle(vad, worker): worker = "failed" when the capture
\* thread returned early (stream build / stream start error), "running"
\* when it sits in its command loop.
NoWavOut == [session |-> 0, sessions |-> {}, len |-> 0]
NoCapture == [active |-> FALSE, vad |-> FALSE, worker |-> "none"]
Handle(vad, worker) == [active |-> TRUE, vad |-> vad, worker |-> worker]

\* AudioCapture::stop joins the capture thread.  A running capture thread
\* whose VAD worker was spawned never exits (CaptureSpec: the callback's
\* Sender clone outlives the join), so the caller blocks for ever.
stop_hangs(h) == h.active /\ h.vad /\ h.worker = "running"

\* results of AudioCapture::start after its own stop(): the two failures
\* raised on the calling thread, or a spawned capture thread
StartResults == {"NoInputDevice", "DeviceConfig", "Spawned"}

\* results of stop_and_get_wav: Ok with a size in 1..MaxWav, or (0) an
\* Encoding error
WavResults == 0..MaxWav
EncodingFailed(w) == w = 0

\* ------------------------------------------------------------------------
\* stop_and_transcribe invocations
\* ------------------------------------------------------------------------
\* Result<String, PipelineError>: tag "Ok" with the text, or the error's name
\* (tag "Stt" carries the SttError)
NoResult == [tag |-> None, text |-> NoText, err |-> NoErr]
Ok(x) == [tag |-> "Ok", text |-> x, err |-> NoErr]
Err(name) == [tag |-> name, text |-> NoText, err |-> NoErr]
ErrStt(e) == [tag |-> "Stt", text |-> NoText, err |-> e]

NoRetry == [max_retries |-> 0, initial_delay |-> Millis(0), max_delay |-> Millis(0),
            retry_on_rate_limit |-> FALSE]

InitTask ==
    [pc |-> "init", session |-> 0, token |-> NoToken, start_cfg |-> Nothing,
     provider |-> None, llm |-> None, retry_config |-> NoRetry, timeout |-> 0,
     limit |-> 0,
     phase |-> "start", attempt |-> 0, calls |-> 0, sleeps |-> <<>>, log |-> <<>>,
     stt_outcome |-> None, stt_ready |-> {}, transcript |-> NoText,
     llm_outcome |-> None, llm_ready |-> {},
     final_text |-> NoText, result |-> NoResult, final_state |-> None,
     cancelled_at_end |-> FALSE, guard |-> FALSE]

\* ------------------------------------------------------------------------
\* AudioBuffer (audio_capture.rs 42-135)
\* ------------------------------------------------------------------------
\* A sample is named by its position n = 1, 2, ... in the stream the buffer
\* is fed; Signal(n) is its f32 value in quarters (5 is 1.25, -8 is -2.0).
\* max_duration_secs is held in tenths of a second.
SignalValues == <<5, -8, 1, -1, 4, -4, 0, 2, -3, 3, 8, -5>>
Signal(n) == SignalValues[((n - 1) % Len(SignalValues)) + 1]

AudioBuffer_new(sample_rate, channels, max_duration_tenths) ==
    [samples |-> <<>>, sample_rate |-> sample_rate, channels |-> channels,
     max_duration_tenths |-> max_duration_tenths]

NoBuffer == AudioBuffer_new(0, 0, 0)

\* (sample_rate as f32 * max_duration_secs * channels as f32) as usize
max_samples(b) == (b.sample_rate * b.max_duration_tenths * b.channels) \div 10

append_keep_oldest(b, new_samples) ==
    LET ext == b.samples \o new_samples
    IN  [b EXCEPT !.samples = IF Len(ext) > max_samples(b)
                              THEN SubSeq(ext, 1, max_samples(b)) ELSE ext]

\* AudioBuffer::append (lines 64-74): extend, then drain(0..drain_count)
append(b, new_samples) ==
    LET ext == b.samples \o new_samples
    IN  [b EXCEPT !.samples = IF Len(ext) > max_samples(b)
                              THEN SubSeq(ext, Len(ext) - max_samples(b) + 1, Len(ext))
                              ELSE ext]

\* `as i16` of a float: the fraction is dropped (towards zero)
TruncDiv(a, b) == IF a >= 0 THEN a \div b ELSE -((-a) \div b)

\* f32::clamp(-1.0, 1.0), in quarters
clamp(x) == IF x < -4 THEN -4 ELSE IF x > 4 THEN 4 ELSE x

\* an integer cast that keeps the low 16 bits of an unclamped product
sample_to_i16_wrapping(x) ==
    LET u == ((TruncDiv(x * 32767, 4) % 65536) + 65536) % 65536
    IN  IF u >= 32768 THEN u - 65536 ELSE u

\* line 112: (sample.clamp(-1.0, 1.0) * i16::MAX as f32) as i16
sample_to_i16(x) == TruncDiv(clamp(x) * 32767, 4)

\* a 16-bit PCM sample in the data chunk: two's complement, little endian
i16_le_bytes(v) == <<((v + 65536) % 65536) % 256, ((v + 65536) % 65536) \div 256>>
i16_from_le_bytes(lo, hi) ==
    IF lo + 256 * hi >= 32768 THEN lo + 256 * hi - 65536 ELSE lo + 256 * hi

\* Result<Vec<u8>, AudioCaptureError> of to_wav_bytes: the header fields
\* and the bytes of the data chunk
NoWav == [ok |-> FALSE, err |-> None, channels |-> 0, sample_rate |-> 0,
          bits_per_sample |-> 0, data |-> <<>>]
WavErr(e) == [NoWav EXCEPT !.err = e]

\* AudioBuffer::to_wav_bytes (lines 97-124) when the writer accepts
\* everything
wav_bytes(b) ==
    [ok |-> TRUE, err |-> None, channels |-> b.channels,
     sample_rate |-> b.sample_rate, bits_per_sample |-> 16,
     data |-> [j \in 1..(2 * Len(b.samples)) |->
                  i16_le_bytes(sample_to_i16(Signal(b.samples[(j + 1) \div 2])))
                      [2 - (j % 2)]]]

\* ... and in general: finalize (lines 118-120) may refuse a data chunk whose
\* last frame lacks a channel
to_wav_bytes(b) ==
    {wav_bytes(b)} \cup
        (IF b.channels > 0 /\ Len(b.samples) % b.channels # 0
         THEN {WavErr("Encoding")} ELSE {})

\* the WAV read back (as stt/whisper.rs 286-303 reads one): the spec of the
\* header and the integer samples of the data chunk
NoDecoded == [ok |-> FALSE, channels |-> 0, sample_rate |-> 0, samples |-> <<>>]

wav_read(w) ==
    [ok |-> TRUE, channels |-> w.channels, sample_rate |-> w.sample_rate,
     samples |-> [i \in 1..(Len(w.data) \div (w.bits_per_sample \div 8)) |->
                     i16_from_le_bytes(w.data[2 * i - 1], w.data[2 * i])]]

\* ------------------------------------------------------------------------
\* VoiceActivityDetector (vad.rs 86-214)
\* ------------------------------------------------------------------------
\* VadEvent
NoEvent == [kind |-> "None", pre_roll |-> <<>>]
SpeechStart(pre_roll) == [kind |-> "SpeechStart", pre_roll |-> pre_roll]
SpeechEnd == [kind |-> "SpeechEnd", pre_roll |-> <<>>]

\* VoiceActivityDetector::new (lines 103-121)
VoiceActivityDetector_new(cfg) ==
    [config |-> cfg, is_speaking |-> FALSE, silence_frames |-> 0,
     speech_frames |-> 0, pre_roll_buffer |-> <<>>,
     pre_roll_max_frames |-> cfg.pre_roll_ms \div cfg.frame_duration_ms]

NoVadConfig == [speech_frames_threshold |-> 0, hangover_frames |-> 0,
                pre_roll_ms |-> 0, frame_duration_ms |-> 10]
NoDetector == VoiceActivityDetector_new(NoVadConfig)

\* the samples of the n-th frame given to the detector (two per frame),
\* named by their position in the stream
Frame(n) == <<2 * n - 1, 2 * n>>

\* what self.vad.is_voice_segment(samples) answers: Ok(true), Ok(false) or Err
VoiceAnswers == {"voice", "quiet", "invalid"}

\* .unwrap_or(false) (lines 142-145)
is_speech(answer) == answer = "voice"

push_pre_roll_unbounded(buf, samples, max_frames) == Append(buf, samples)

\* lines 136-139: push_back, then pop_front when over the maximum
push_pre_roll(buf, samples, max_frames) ==
    IF Len(buf) + 1 > max_frames THEN Tail(Append(buf, samples))
    ELSE Append(buf, samples)

\* self.pre_roll_buffer.iter().flatten().cloned().collect()
RECURSIVE Flatten(_)
Flatten(frames) ==
    IF frames = <<>> THEN <<>> ELSE Head(frames) \o Flatten(Tail(frames))

detects_start_any_frame(speech, d) ==
    ~d.is_speaking /\ d.speech_frames >= d.config.speech_frames_threshold

\* line 152, inside the branch of a speech frame
detects_start(speech, d) ==
    speech /\ ~d.is_speaking /\ d.speech_frames >= d.config.speech_frames_threshold

detects_end_late(speech, d) ==
    ~speech /\ d.is_speaking /\ d.silence_frames > d.config.hangover_frames

\* line 176, inside the branch of a silence frame
detects_end(speech, d) ==
    ~speech /\ d.is_speaking /\ d.silence_frames >= d.config.hangover_frames

\* VoiceActivityDetector::process_frame (lines 134-189): the detector after
\* the call and the event returned
process_frame(d, samples, answer) ==
    LET speech == is_speech(answer)
        d1 == [d EXCEPT !.pre_roll_buffer =
                            push_pre_roll(d.pre_roll_buffer, samples,
                                          d.pre_roll_max_frames)]
        d2 == IF speech
              THEN [d1 EXCEPT !.speech_frames = d1.speech_frames + 1,
                              !.silence_frames = 0]
              ELSE [d1 EXCEPT !.silence_frames = d1.silence_frames + 1,
                              !.speech_frames = 0]
    IN  IF detects_start(speech, d2)
        THEN [detector |-> [d2 EXCEPT !.is_speaking = TRUE],
              event |-> SpeechStart(Flatten(d2.pre_roll_buffer))]
        ELSE IF detects_end(speech, d2)
        THEN [detector |-> [d2 EXCEPT !.is_speaking = FALSE], event |-> SpeechEnd]
        ELSE [detector |-> d2, event |-> NoEvent]

reset_keeps_speaking(d) ==
    [d EXCEPT !.silence_frames = 0, !.speech_frames = 0, !.pre_roll_buffer = <<>>]

\* VoiceActivityDetector::reset (lines 192-197)
reset(d) ==
    [d EXCEPT !.is_speaking = FALSE, !.silence_frames = 0, !.speech_frames = 0,
              !.pre_roll_buffer = <<>>]

\* history: n frames were processed since the detector was created or last
\* reset (`resets` times so far); the last one was of class `class` and
\* ended a run of `run` frames of that class; the call returned `event` and
\* found is_speaking = was_speaking; `prev` is the kind of the last event
\* other than None that an earlier call returned since then
NoFrames == [n |-> 0, class |-> None, run |-> 0, event |-> NoEvent,
             was_speaking |-> FALSE, resets |-> 0, prev |-> None]

\* ------------------------------------------------------------------------
\* VadFrameProcessor (vad.rs 300-373)
\* ------------------------------------------------------------------------
\* Rates are in units of 160 Hz: the detector's 16 kHz is 100, so that a
\* frame of 20 ms has 2 samples.  A sample is named by its position in the
\* input stream; a resampled sample by the input sample it is taken at.
VAD_RATE == 100

\* VoiceActivityDetector::frame_size (lines 205-208)
frame_size(d) == (VAD_RATE * d.config.frame_duration_ms) \div 1000

\* lines 333-334: (frame_size * source_rate / 16000).ceil()
source_frame_size(p) ==
    (frame_size(p.vad) * p.source_sample_rate + VAD_RATE - 1) \div VAD_RATE

\* VadFrameProcessor::new (lines 305-312)
VadFrameProcessor_new(cfg, source_sample_rate) ==
    [vad |-> VoiceActivityDetector_new(cfg), source_sample_rate |-> source_sample_rate,
     frame_buffer |-> <<>>, resampled_buffer |-> <<>>]

NoProcessor == VadFrameProcessor_new(NoVadConfig, VAD_RATE)

\* history: `fed` samples were given in `calls` calls; `consumed` are the
\* samples drained into source frames, `vad_in` the resampled samples handed
\* to the detector in `frames` frames; the last call handed over
\* `call_frames` frames and returned `events` (kind, and the frame it is of)
NoInput == [fed |-> 0, calls |-> 0, consumed |-> <<>>, vad_in |-> <<>>,
            frames |-> 0, call_frames |-> 0, events |-> <<>>]

\* n of the samples of a frame, spread over it in order
Pick(frame, n) == [j \in 1..n |-> frame[((j - 1) * Len(frame)) \div n + 1]]

\* resample_to_16khz (lines 224-277): the input at 16 kHz; otherwise what the
\* sinc resampler returns (a slice of about len * 16000 / rate samples), or
\* the input itself when the resampler cannot be built or fails
ResampleOutcomes == {"short", "long", "failed"}
resample_to_16khz(samples, source_sample_rate, outcome) ==
    LET ideal == (Len(samples) * VAD_RATE) \div source_sample_rate
    IN  IF source_sample_rate = VAD_RATE THEN samples
        ELSE IF samples = <<>> THEN <<>>
        ELSE IF outcome = "failed" THEN samples
        ELSE IF outcome = "long" THEN Pick(samples, Min(ideal + 1, Len(samples)))
        ELSE Pick(samples, ideal)

take_frame_dropping_rest(buf, n) == [frame |-> SubSeq(buf, 1, n), rest |-> <<>>]

\* buf.drain(..n).collect() (lines 339 and 349): the first n samples, and
\* what stays in the buffer
take_frame(buf, n) ==
    [frame |-> SubSeq(buf, 1, n), rest |-> SubSeq(buf, n + 1, Len(buf))]

\* lines 348-356: the detector is given every complete frame of the
\* resampled buffer; an event other than None is pushed
RECURSIVE process_vad_frames(_, _)
process_vad_frames(st, answers) ==
    IF Len(st.p.resampled_buffer) >= frame_size(st.p.vad)
    THEN LET t == take_frame(st.p.resampled_buffer, frame_size(st.p.vad))
             i == st.h.call_frames + 1
             k == st.h.frames + 1
             res == process_frame(st.p.vad, t.frame, answers[i])
         IN  process_vad_frames(
                 [p |-> [st.p EXCEPT !.vad = res.detector,
                                     !.resampled_buffer = t.rest],
                  h |-> [st.h EXCEPT
                            !.frames = k, !.call_frames = i,
                            !.vad_in = st.h.vad_in \o t.frame,
                            !.events = IF res.event.kind = "None" THEN st.h.events
                                       ELSE Append(st.h.events,
                                                   [kind |-> res.event.kind,
                                                    frame |-> k])]],
                 answers)
    ELSE st

\* lines 337-357: every complete source frame is drained, resampled and
\* appended to the resampled buffer
RECURSIVE process_source_frames(_, _, _)
process_source_frames(st, outcome, answers) ==
    IF Len(st.p.frame_buffer) >= source_frame_size(st.p)
    THEN LET t == take_frame(st.p.frame_buffer, source_frame_size(st.p))
             resampled == resample_to_16khz(t.frame, st.p.source_sample_rate, outcome)
         IN  process_source_frames(
                 process_vad_frames(
                     [p |-> [st.p EXCEPT
                                !.frame_buffer = t.rest,
                                !.resampled_buffer = st.p.resampled_buffer \o resampled],
                      h |-> [st.h EXCEPT !.consumed = st.h.consumed \o t.frame]],
                     answers),
                 outcome, answers)
    ELSE st

\* VadFrameProcessor::process (lines 323-360)
process(p, h, samples, outcome, answers) ==
    process_source_frames(
        [p |-> [p EXCEPT !.frame_buffer = p.frame_buffer \o samples],
         h |-> [h EXCEPT !.fed = h.fed + Len(samples), !.calls = h.calls + 1,
                         !.call_frames = 0, !.events = <<>>]],
        outcome, answers)

\* ------------------------------------------------------------------------
\* RecordingStore (recordings.rs)
\* ------------------------------------------------------------------------
\* An entry of the recordings directory: its name, whether it is a regular
\* file with the extension wav, and its modification time.
WavFile(name, mtime) == [name |-> name, wav |-> TRUE, mtime |-> mtime]
OtherFile(name) == [name |-> name, wav |-> FALSE, mtime |-> 1]

\* the .wav files of a directory
WavFiles(dir) == {f \in dir : f.wav}

\* lines 215-234: the .wav files whose metadata can be read
listed(dir, unstat) == {f \in dir : f.wav /\ f.name \notin unstat}

sorted_newest_first(order) ==
    \A i, j \in 1..Len(order) : i < j => order[i].mtime >= order[j].mtime

\* line 241: files.sort_by_key(|(_, modified)| *modified)
sorted_oldest_first(order) ==
    \A i, j \in 1..Len(order) : i < j => order[i].mtime <= order[j].mtime

\* the orders `files` can have after the sort: read_dir lists the entries
\* in any order and the sort keeps the order of equal keys
RECURSIVE SortedOrders(_)
SortedOrders(files) ==
    IF files = {} THEN {<<>>}
    ELSE {order \in UNION {{<<f>> \o rest : rest \in SortedOrders(files \ {f})} :
                              f \in files} :
             sorted_oldest_first(order)}

\* prune_to_max_files (lines 207-260).  readable: read_dir succeeds; unstat:
\* the names whose metadata cannot be read; order: `files` after the sort;
\* undeletable: the names remove_file fails for.
prune_to_max_files(dir, max_keep, readable, unstat, order, undeletable) ==
    LET files == listed(dir, unstat)
        delete_count == Cardinality(files) - max_keep
        attempted == {order[i] : i \in 1..delete_count}
        removed == {f \in attempted : f.name \notin undeletable}
    IN  IF max_keep = 0
        THEN [ok |-> TRUE, deleted |-> 0, dir |-> dir, attempted |-> {}]
        ELSE IF ~readable
        THEN [ok |-> FALSE, deleted |-> 0, dir |-> dir, attempted |-> {}]
        ELSE IF Cardinality(files) <= max_keep
        THEN [ok |-> TRUE, deleted |-> 0, dir |-> dir, attempted |-> {}]
        ELSE [ok |-> TRUE, deleted |-> Cardinality(removed), dir |-> dir \ removed,
              attempted |-> attempted]

\* history: no prune_to_max_files call was made
NoPrune == [calls |-> 0, max_keep |-> 0, unstat |-> {}, ok |-> TRUE, deleted |-> 0,
            attempted |-> {}, before |-> {}]

\* ------------------------------------------------------------------------
\* RequestLogStore (request_log.rs 189-282)
\* ------------------------------------------------------------------------
LogThreads == {"t1", "t2"}

\* RequestLog::new: a log in progress with a fresh id
RequestLog_new(id) == [id |-> id, status |-> "InProgress"]

\* complete_cancelled, applied by start_request to a log still in progress
finalized(log) ==
    IF log.status = "InProgress" THEN [log EXCEPT !.status = "Cancelled"] ELSE log

\* store_log (lines 247-253): pop_front at capacity, then push_back
store_log(logs, log) ==
    IF Len(logs) >= MAX_LOGS THEN Append(Tail(logs), log) ELSE Append(logs, log)

\* Vec::reverse and Vec::truncate
Reverse(seq) == [i \in 1..Len(seq) |-> seq[Len(seq) - i + 1]]
truncate(seq, limit) ==
    IF limit = Nothing THEN seq ELSE SubSeq(seq, 1, Min(limit[1], Len(seq)))

get_logs_current_last(logs, current, limit) ==
    truncate(Reverse(logs) \o current, limit)

\* get_logs (lines 260-274) once both mutexes are held: the stored logs,
\* the current one pushed after them, reversed, truncated
get_logs(logs, current, limit) == truncate(Reverse(logs \o current), limit)

\* a thread outside a call
IdleLogThread == [pc |-> "idle", limit |-> Nothing, returned |-> None, result |-> <<>>]

NewStore == [logs |-> <<>>, current |-> Nothing, logs_lock |-> None,
             current_lock |-> None, next_id |-> 1]

\* a caller of a state query that is not inside a call
IdleQuery == [pc |-> "idle", op |-> None, ans |-> None, calls |-> 0]

\* the pipeline mutex can be taken: no operation is stuck inside its critical
\* section, no stop_and_transcribe call owns the guard and no state query
\* holds it
mutex_free ==
    /\ ~wedged
    /\ \A t \in Tasks : ~tasks[t].guard
    /\ \A q \in Callers : queries[q].pc # "locked"

InFlight(t) == tasks[t].pc \in {"race1", "fin1", "race2", "fin2", "fin_ok"}

\* ------------------------------------------------------------------------
\* Init
\* ------------------------------------------------------------------------
PInit ==
    /\ state = "Idle"
    /\ cancel_token = NoToken
    /\ config \in Configs
    /\ stt_current = registered_provider(config)
    /\ llm_provider = created_llm_provider(config)
    /\ capture = NoCapture
    /\ wedged = FALSE
    /\ next_token = 1
    /\ cancelled = {}
    /\ tasks = [t \in Tasks |-> InitTask]
    /\ session = 0
    /\ session_cfg = Nothing
    /\ last_op = [op |-> "new", pre |-> "Idle", ret |-> "Ok", wav |-> 0]

\* ------------------------------------------------------------------------
\* SharedPipeline::start_recording (pipeline.rs 322-346)
\* ------------------------------------------------------------------------
\* CancellationToken::new() (line 331): a token no earlier call has handed out
CancellationToken_shared == Min(next_token, 1)

CancellationToken_new == next_token

start_recording ==
    /\ mutex_free
    /\ IF ~can_start_recording(state)
       THEN /\ Op("start_recording", "AlreadyRecording", 0)
            /\ guard_rejects
            /\ UNCHANGED <<config, stt_current, llm_provider,
                           capture, wedged, next_token, cancelled, tasks,
                           session>>
            /\ KeepSessionCfg
       ELSE /\ next_token <= MaxSessions
            /\ next_token' = next_token + 1
            /\ UNCHANGED <<config, stt_current, llm_provider, cancelled, tasks>>
            /\ IF stop_hangs(capture)
               THEN \* blocked in AudioCapture::start -> self.stop()
                    /\ cancel_token' = CancellationToken_new
                    /\ capture' = NoCapture
                    /\ wedged' = TRUE
                    /\ Op("start_recording", "hang", 0)
                    /\ UNCHANGED <<state, session, session_cfg>>
               ELSE \E r \in StartResults :
                    /\ UNCHANGED wedged
                    /\ IF r = "Spawned"
                       THEN /\ \E w \in {"running", "failed"} :
                                 capture' = Handle(config.vad_enabled, w)
                            /\ state' = "Recording"
                            /\ cancel_token' = CancellationToken_new
                            /\ session' = next_token
                            /\ session_cfg' = Some(config)
                            /\ Op("start_recording", "Ok", 0)
                       ELSE /\ capture' = NoCapture
                            /\ set_error
                            /\ Op("start_recording", r, 0)
                            /\ UNCHANGED session
                            /\ KeepSessionCfg

\* ------------------------------------------------------------------------
\* SharedPipeline::stop_recording (pipeline.rs 349-380)
\* ------------------------------------------------------------------------
stop_recording ==
    /\ mutex_free
    /\ UNCHANGED <<config, stt_current, llm_provider, next_token, cancelled,
                   tasks, session>>
    /\ IF ~can_stop_recording(state)
       THEN /\ Op("stop_recording", "NotRecording", 0)
            /\ guard_rejects
            /\ UNCHANGED <<capture, wedged>>
       ELSE IF stop_hangs(capture)
       THEN /\ capture' = NoCapture
            /\ wedged' = TRUE
            /\ Op("stop_recording", "hang", 0)
            /\ UNCHANGED <<state, cancel_token>>
       ELSE \E w \in WavResults :
            /\ capture' = NoCapture
            /\ UNCHANGED wedged
            /\ IF EncodingFailed(w)
               THEN set_error /\ Op("stop_recording", "AudioCapture", 0)
               ELSE IF too_large(w, config.max_recording_bytes)
               THEN set_error /\ OpWav("stop_recording", "RecordingTooLarge", w)
               ELSE reset_to_idle /\ OpWav("stop_recording", "Ok", w)
    /\ KeepSessionCfg

\* ------------------------------------------------------------------------
\* SharedPipeline::update_config (pipeline.rs 552-567)
\* ------------------------------------------------------------------------
update_config(c) ==
    /\ mutex_free
    /\ c # config
    /\ config' = c
    /\ stt_current' = registered_provider(c)
    /\ llm_provider' = created_llm_provider(c)
    /\ Op("update_config", "Ok", 0)
    /\ UNCHANGED <<state, cancel_token, capture, wedged, next_token, cancelled,
                   tasks, session, session_cfg>>

\* ------------------------------------------------------------------------
\* SharedPipeline::cancel (pipeline.rs 601-621)
\* ------------------------------------------------------------------------
cancel ==
    /\ mutex_free
    /\ UNCHANGED <<config, stt_current, llm_provider, next_token, tasks,
                   session>>
    /\ IF ~can_cancel(state)
       THEN /\ Op("cancel", "Nothing", 0)
            /\ UNCHANGED <<state, cancel_token, capture, wedged, cancelled>>
       ELSE /\ cancelled' = IF cancel_token # NoToken
                            THEN cancelled \cup {cancel_token} ELSE cancelled
            /\ IF state = "Recording" /\ stop_hangs(capture)
               THEN /\ cancel_token' = NoToken
                    /\ capture' = NoCapture
                    /\ wedged' = TRUE
                    /\ Op("cancel", "hang", 0)
                    /\ UNCHANGED state
               ELSE /\ capture' = IF state = "Recording" THEN NoCapture ELSE capture
                    /\ reset_to_idle
                    /\ Op("cancel", "Ok", 0)
                    /\ UNCHANGED wedged
    /\ KeepSessionCfg

\* ------------------------------------------------------------------------
\* SharedPipeline::force_reset (pipeline.rs 626-640)
\* ------------------------------------------------------------------------
force_reset ==
    /\ mutex_free
    /\ UNCHANGED <<config, stt_current, llm_provider, next_token, tasks,
                   session>>
    /\ cancelled' = IF cancel_token # NoToken
                    THEN cancelled \cup {cancel_token} ELSE cancelled
    /\ IF stop_hangs(capture)
       THEN /\ cancel_token' = NoToken
            /\ capture' = NoCapture
            /\ wedged' = TRUE
            /\ Op("force_reset", "hang", 0)
            /\ UNCHANGED state
       ELSE /\ capture' = NoCapture
            /\ reset_to_idle
            /\ Op("force_reset", "Ok", 0)
            /\ UNCHANGED wedged
    /\ KeepSessionCfg

\* ------------------------------------------------------------------------
\* SharedPipeline::stop_and_transcribe (pipeline.rs 391-547)
\* ------------------------------------------------------------------------
SetTask(t, r) == tasks' = [tasks EXCEPT ![t] = r]

\* line 432: the block of phase 1 ends and its MutexGuard is dropped before
\* the first await
lock_kept(r) == [r EXCEPT !.guard = TRUE]

lock_released(r) == [r EXCEPT !.guard = FALSE]

\* the call's last critical section is over: res is what it returns, and
\* (history) final_state the pipeline state it leaves behind
Finish(r, res) ==
    [r EXCEPT !.pc = "done", !.result = res, !.final_state = state',
              !.cancelled_at_end = (r.token \in cancelled)]

\* Phase 1 (lines 393-432): one critical section
stop_and_transcribe_phase1(t) ==
    LET \* history: the settings this call applies, and the session's own
        r0 == [tasks[t] EXCEPT !.session = session,
                               !.start_cfg = session_cfg,
                               !.limit = config.max_recording_bytes,
                               !.provider = stt_current,
                               !.llm = llm_provider,
                               !.retry_config = config.retry_config,
                               !.timeout = config.transcription_timeout]
    IN
    /\ mutex_free
    /\ tasks[t].pc = "init"
    /\ \A u \in Tasks : u < t => tasks[u].pc # "init"    \* lowest free slot
    /\ UNCHANGED <<config, stt_current, llm_provider, next_token, cancelled,
                   session>>
    /\ IF ~can_stop_recording(state)
       THEN /\ guard_rejects
            /\ UNCHANGED <<capture, wedged>>
            /\ SetTask(t, Finish(tasks[t], Err("NotRecording")))
            /\ Op("stop_and_transcribe", "NotRecording", t)
       ELSE IF stop_hangs(capture)
       THEN /\ capture' = NoCapture
            /\ wedged' = TRUE
            /\ SetTask(t, [tasks[t] EXCEPT !.pc = "blocked", !.guard = TRUE])
            /\ Op("stop_and_transcribe", "hang", t)
            /\ UNCHANGED <<state, cancel_token>>
       ELSE \E w \in WavResults :
            /\ capture' = NoCapture
            /\ UNCHANGED wedged
            /\ IF EncodingFailed(w)
               THEN /\ set_error
                    /\ SetTask(t, Finish(tasks[t], Err("AudioCapture")))
                    /\ Op("stop_and_transcribe", "AudioCapture", t)
               ELSE IF too_large(w, config.max_recording_bytes)
               THEN /\ set_error
                    /\ SetTask(t, Finish(r0, Err("RecordingTooLarge")))
                    /\ OpWav("stop_and_transcribe", "RecordingTooLarge", w)
               ELSE IF stt_current = None
               THEN \* state = Transcribing, then set_error in the same section
                    /\ set_error
                    /\ SetTask(t, Finish(r0, Err("NoProvider")))
                    /\ OpWav("stop_and_transcribe", "NoProvider", w)
               ELSE /\ state' = "Transcribing"
                    /\ UNCHANGED cancel_token
                    \* unwrap_or_else(CancellationToken::new): NoToken stands
                    \* for a private token nobody can cancel
                    /\ SetTask(t, lock_released([r0 EXCEPT !.pc = "race1",
                                                            !.token = cancel_token]))
                    /\ OpWav("stop_and_transcribe", "Transcribing", w)
    /\ KeepSessionCfg

\* tokio::select! { biased; ... }: the branches are polled in source order
\* and the first ready one decides
select_timer_first(cancel_ready, timer_ready, primary_ready) ==
    IF timer_ready THEN "timer"
    ELSE IF cancel_ready THEN "cancel"
    ELSE IF primary_ready THEN "primary"
    ELSE "pending"

select_biased(cancel_ready, timer_ready, primary_ready) ==
    IF cancel_ready THEN "cancel"
    ELSE IF timer_ready THEN "timer"
    ELSE IF primary_ready THEN "primary"
    ELSE "pending"

\* history only: the branches that were ready when cancellation won a race
ReadySet(cancel_ready, timer_ready, primary_ready) ==
    (IF cancel_ready THEN {"cancel"} ELSE {})
        \cup (IF timer_ready THEN {"timer"} ELSE {})
        \cup (IF primary_ready THEN {"primary"} ELSE {})

\* with_retry (stt/retry.rs 69-103), one poll of its future.  r.phase:
\* "start" before the first operation() call, "call" awaiting operation(),
\* "sleep" awaiting tokio::time::sleep(delay).  x is the answer operation()
\* has produced by this poll (NoAnswer: still pending), woke whether the
\* backoff sleep has elapsed.
with_retry_ready(r, x, woke) ==
    \/ r.phase = "start"
    \/ r.phase = "call" /\ x # NoAnswer
    \/ r.phase = "sleep" /\ woke

\* should the error of this attempt end the loop (line 83)
gives_up_only_on_fatal(rc, e, attempt) == ~is_retryable_error(e)

gives_up(rc, e, attempt) == ~is_retryable_error(e) \/ attempt = rc.max_retries

with_retry(r, x) ==
    IF r.phase = "start"
    THEN [task |-> [r EXCEPT !.phase = "call", !.calls = 1], res |-> NoAnswer]
    ELSE IF r.phase = "call"
    THEN LET r1 == [r EXCEPT !.log = Append(r.log, x)]
         IN  IF x.ok THEN [task |-> r1, res |-> x]
             ELSE IF gives_up(r.retry_config, x.err, r.attempt)
             THEN [task |-> r1, res |-> x]
             ELSE [task |-> [r1 EXCEPT
                       !.phase = "sleep",
                       !.sleeps = Append(r.sleeps,
                                         delay_for_attempt(r.retry_config, r.attempt))],
                   res |-> NoAnswer]
    ELSE [task |-> [r EXCEPT !.phase = "call",
                             !.attempt = r.attempt + 1, !.calls = r.calls + 1],
          res |-> NoAnswer]

\* lines 477-490: where the call goes once the transcription race is over:
\* any error ends it in the error section, a transcript goes on to the
\* rewrite race when a rewrite provider is present and to phase 4 otherwise
after_transcription_race_retrying(outcome, has_llm) ==
    IF outcome = "Timeout" THEN "race1"
    ELSE IF outcome # "Ok" THEN "fin1"
    ELSE IF has_llm THEN "race2" ELSE "fin_ok"

after_transcription_race(outcome, has_llm) ==
    IF outcome # "Ok" THEN "fin1"
    ELSE IF has_llm THEN "race2" ELSE "fin_ok"

\* Phase 2 (lines 445-475), one poll of the select, and on success the first
\* poll of phase 3.  Inputs: timer = the transcription deadline has elapsed,
\* x / woke = what the retried call has to offer (see with_retry).
poll_transcription(t, timer, x, woke) ==
    LET r == tasks[t]
        c == r.token \in cancelled
        p == with_retry_ready(r, x, woke)
        d == select_biased(c, timer, p)
    IN  /\ r.pc = "race1"
        /\ d # "pending"
        \* the deadline timer is armed by the first poll
        /\ r.phase = "start" => ~timer
        /\ x \in ProviderResults(r.attempt) \cup {NoAnswer}
        /\ r.phase # "call" => x = NoAnswer
        /\ r.phase # "sleep" => ~woke
        /\ UNCHANGED <<state, cancel_token, config, stt_current, llm_provider,
                       capture, wedged, next_token, cancelled, session,
                       session_cfg, last_op>>
        /\ IF d = "cancel"
           THEN SetTask(t, [r EXCEPT !.pc = after_transcription_race("Cancelled", r.llm # None),
                                     !.stt_outcome = "Cancelled",
                                     !.stt_ready = ReadySet(c, timer, p),
                                     !.result = Err("Cancelled")])
           ELSE IF d = "timer"
           THEN SetTask(t, [r EXCEPT !.pc = after_transcription_race("Timeout", r.llm # None),
                                     !.stt_outcome = "Timeout",
                                     !.result = Err("Timeout")])
           ELSE LET w == with_retry(r, x)
                IN  IF w.res = NoAnswer THEN SetTask(t, w.task)
                    ELSE IF ~w.res.ok
                    THEN SetTask(t, [w.task EXCEPT
                                         !.pc = after_transcription_race("SttError", r.llm # None),
                                         !.stt_outcome = "SttError",
                                         !.result = ErrStt(w.res.err)])
                    ELSE SetTask(t, [w.task EXCEPT
                                         !.pc = after_transcription_race("Ok", r.llm # None),
                                         !.stt_outcome = "Ok",
                                         !.transcript = w.res.text,
                                         !.final_text = IF r.llm # None THEN NoText
                                                        ELSE w.res.text])

\* lines 477-486: the critical section after a failed transcription race
finish_stt_error(t) ==
    LET r == tasks[t]
    IN  /\ mutex_free
        /\ r.pc = "fin1"
        /\ UNCHANGED <<config, stt_current, llm_provider, capture, wedged,
                       next_token, cancelled, session>>
        /\ IF r.stt_outcome = "Cancelled"
           THEN reset_to_idle /\ SetTask(t, Finish(r, r.result))
           ELSE set_error /\ SetTask(t, Finish(r, r.result))
        /\ Op("stop_and_transcribe:end", r.stt_outcome, t)
        /\ KeepSessionCfg

\* lines 505-534: the text phase 3 yields when the rewrite race was not
\* cancelled.  A rewrite timeout and a rewrite error fall back to the raw
\* transcript.
rewrite_text_or_nothing(outcome, transcript) ==
    IF outcome = "Ok" THEN Formatted(transcript)
    ELSE IF outcome = "Error" THEN transcript
    ELSE NoText

rewrite_text(outcome, transcript) ==
    IF outcome = "Ok" THEN Formatted(transcript) ELSE transcript

\* Phase 3 (lines 492-537), one poll of the rewrite race.  Inputs: timer =
\* the 30 s rewrite timer has elapsed, y = what format_text has returned by
\* this poll: "Ok" (Formatted(transcript)), "Err" (an LlmError) or None.
poll_rewrite(t, timer, y) ==
    LET r == tasks[t]
        c == r.token \in cancelled
        d == select_biased(c, timer, y # None)
        outcome == IF d = "timer" THEN "Timeout" ELSE IF y = "Ok" THEN "Ok" ELSE "Error"
    IN  /\ r.pc = "race2"
        /\ d # "pending"
        /\ UNCHANGED <<state, cancel_token, config, stt_current, llm_provider,
                       capture, wedged, next_token, cancelled, session,
                       session_cfg, last_op>>
        /\ IF d = "cancel"
           THEN SetTask(t, [r EXCEPT !.pc = "fin2", !.llm_outcome = "Cancelled",
                                     !.llm_ready = ReadySet(c, timer, y # None),
                                     !.result = Err("Cancelled")])
           ELSE SetTask(t, [r EXCEPT !.pc = "fin_ok", !.llm_outcome = outcome,
                                     !.final_text = rewrite_text(outcome, r.transcript)])

\* lines 528-532: the critical section after a cancelled rewrite race
finish_rewrite_cancelled(t) ==
    LET r == tasks[t]
    IN  /\ mutex_free
        /\ r.pc = "fin2"
        /\ UNCHANGED <<config, stt_current, llm_provider, capture, wedged,
                       next_token, cancelled, session>>
        /\ reset_to_idle
        /\ SetTask(t, Finish(r, r.result))
        /\ Op("stop_and_transcribe:end", "Cancelled", t)
        /\ KeepSessionCfg

\* Phase 4 (lines 540-546)
finish_ok(t) ==
    LET r == tasks[t]
    IN  /\ mutex_free
        /\ r.pc = "fin_ok"
        /\ UNCHANGED <<config, stt_current, llm_provider, capture, wedged,
                       next_token, cancelled, session>>
        /\ reset_to_idle
        /\ SetTask(t, Finish(r, Ok(r.final_text)))
        /\ Op("stop_and_transcribe:end", "Ok", t)
        /\ KeepSessionCfg

\* The call returns to its caller right after its last critical section (no
\* await in between): the record of the finished call is dropped and the
\* slot is free for the next call.
stop_and_transcribe_returns(t) ==
    /\ tasks[t].pc = "done"
    /\ SetTask(t, InitTask)
    /\ UNCHANGED <<state, cancel_token, config, stt_current, llm_provider,
                   capture, wedged, next_token, cancelled, session,
                   session_cfg, last_op>>

\* no finished call is waiting to return: a return is the immediate next
\* step of its task and touches nothing but the task's own record
Quiet == \A t \in Tasks : tasks[t].pc # "done"

\* ------------------------------------------------------------------------
\* The orchestrator specification
\* ------------------------------------------------------------------------
CIdle ==
    /\ cap_vad = FALSE /\ cap_pc = "none" /\ vad_pc = "none" /\ stop_pc = "idle"
    /\ cmd_q = 0 /\ vad_q = 0 /\ senders = {} /\ stream_alive = FALSE
    /\ event_q = 0 /\ buf_len = 0
    /\ cap_session = 0 /\ buf_sessions = {} /\ wav_out = NoWavOut

\* the retry utilities are not in use on their own
RIdle ==
    /\ rtask = InitTask /\ rres = NoAnswer
    /\ r_n = -1 /\ r_delay = Big(0)
    /\ r_err = NoErr /\ r_retry = FALSE

\* nobody queries the state
QIdle == queries = [q \in Callers |-> IdleQuery]

\* no AudioBuffer is looked at on its own
BIdle == abuf = NoBuffer /\ appended = 0 /\ wav = NoWav /\ decoded = NoDecoded

\* no VoiceActivityDetector is looked at on its own
VIdle == detector = NoDetector /\ vad_hist = NoFrames

\* no RequestLogStore is looked at on its own
LIdle == store = NewStore /\ log_threads = [t \in LogThreads |-> IdleLogThread]

\* no VadFrameProcessor is looked at on its own
FIdle == processor = NoProcessor /\ proc_hist = NoInput

\* no RecordingStore is looked at on its own
DIdle == rec_dir = {} /\ prune_hist = NoPrune

\* the components modelled on their own are not in use
UIdle == QIdle /\ BIdle /\ VIdle /\ LIdle /\ FIdle /\ DIdle

Init == PInit /\ CIdle /\ RIdle /\ UIdle

StartRecording == Quiet /\ start_recording /\ UNCHANGED <<cvars, rvars, uvars>>
StopRecording == Quiet /\ stop_recording /\ UNCHANGED <<cvars, rvars, uvars>>
UpdateConfig == Quiet /\ (\E c \in Configs : update_config(c)) /\ UNCHANGED <<cvars, rvars, uvars>>
Cancel == Quiet /\ cancel /\ UNCHANGED <<cvars, rvars, uvars>>
ForceReset == Quiet /\ force_reset /\ UNCHANGED <<cvars, rvars, uvars>>
Phase1 == Quiet /\ (\E t \in Tasks : stop_and_transcribe_phase1(t)) /\ UNCHANGED <<cvars, rvars, uvars>>
PollTranscription ==
    /\ Quiet
    /\ \E t \in Tasks, timer \in BOOLEAN, woke \in BOOLEAN,
          x \in UNION {ProviderResults(a) : a \in 0..2} \cup {NoAnswer} :
              poll_transcription(t, timer, x, woke)
    /\ UNCHANGED <<cvars, rvars, uvars>>
FinishSttError == Quiet /\ (\E t \in Tasks : finish_stt_error(t)) /\ UNCHANGED <<cvars, rvars, uvars>>
PollRewrite ==
    /\ Quiet
    /\ \E t \in Tasks, timer \in BOOLEAN, y \in {None, "Ok", "Err"} :
          poll_rewrite(t, timer, y)
    /\ UNCHANGED <<cvars, rvars, uvars>>
FinishRewriteCancelled == Quiet /\ (\E t \in Tasks : finish_rewrite_cancelled(t)) /\ UNCHANGED <<cvars, rvars, uvars>>
FinishOk == Quiet /\ (\E t \in Tasks : finish_ok(t)) /\ UNCHANGED <<cvars, rvars, uvars>>
Returns == (\E t \in Tasks : stop_and_transcribe_returns(t)) /\ UNCHANGED <<cvars, rvars, uvars>>

Next ==
    \/ StartRecording
    \/ StopRecording
    \/ UpdateConfig
    \/ Cancel
    \/ ForceReset
    \/ Phase1
    \/ PollTranscription
    \/ FinishSttError
    \/ PollRewrite
    \/ FinishRewriteCancelled
    \/ FinishOk
    \/ Returns

Spec == Init /\ [][Next]_vars

\* the steps of one stop_and_transcribe call after phase 1
TaskStep(t) ==
    /\ \/ /\ Quiet
          /\ \/ \E timer \in BOOLEAN, woke \in BOOLEAN,
                   x \in UNION {ProviderResults(a) : a \in 0..2} \cup {NoAnswer} :
                       poll_transcription(t, timer, x, woke)
             \/ finish_stt_error(t)
             \/ \E timer \in BOOLEAN, y \in {None, "Ok", "Err"} : poll_rewrite(t, timer, y)
             \/ finish_rewrite_cancelled(t)
             \/ finish_ok(t)
       \/ stop_and_transcribe_returns(t)
    /\ UNCHANGED <<cvars, rvars, uvars>>

\* The tokio runtime polls a woken future, the sleep of each select elapses
\* (lines 465 and 503), and a free mutex is acquired: a call that can take a
\* step takes one.  The provider is free to stay pending for ever.
FairSpec == Spec /\ \A t \in Tasks : WF_vars(TaskStep(t))


\* ------------------------------------------------------------------------
\* One capture session at thread granularity (audio_capture.rs 228-314 and
\* run_capture_thread, 370-516)
\* ------------------------------------------------------------------------
\* AudioCapture::start has returned Ok: the capture thread is spawned
CaptureInit ==
    /\ PInit /\ config = CfgA /\ RIdle /\ UIdle
    /\ cap_vad \in BOOLEAN
    /\ cap_pc = "spawned" /\ vad_pc = "none" /\ stop_pc = "idle"
    /\ cmd_q = 0 /\ vad_q = 0 /\ senders = {} /\ stream_alive = FALSE
    /\ event_q = 0 /\ buf_len = 0
    /\ cap_session = 1 /\ buf_sessions = {} /\ wav_out = NoWavOut

\* lines 386-417: the sample channel is created (vad_samples_tx is its first
\* Sender) and, with VAD enabled, the VAD worker is spawned
cap_spawn_vad ==
    /\ cap_pc = "spawned"
    /\ cap_pc' = "build"
    /\ senders' = {"vad_samples_tx"}
    /\ vad_pc' = IF cap_vad THEN "loop" ELSE "none"
    /\ UNCHANGED <<cap_vad, stop_pc, cmd_q, vad_q, stream_alive, event_q, buf_len,
                   cap_session, buf_sessions, wav_out>>

\* lines 419-495: build_input_stream and play.  The data callback owns a
\* clone of the Sender (vad_tx) when VAD is enabled.  On an error the
\* function returns: its locals (both Senders, the stream) are dropped and
\* the VAD worker is left detached.
cap_build_stream(ok) ==
    /\ cap_pc = "build"
    /\ IF ok
       THEN /\ cap_pc' = "command_loop"
            /\ stream_alive' = TRUE
            /\ senders' = IF cap_vad THEN senders \cup {"vad_tx"} ELSE senders
       ELSE /\ cap_pc' = "exited"
            /\ stream_alive' = FALSE
            /\ senders' = {}
    /\ UNCHANGED <<cap_vad, vad_pc, stop_pc, cmd_q, vad_q, event_q, buf_len,
                   cap_session, buf_sessions, wav_out>>

\* the data callback (lines 425-435): append to the buffer (AudioBuffer::
\* append trims to max_samples), then tx.send to the VAD worker.  The
\* channel is mpsc::channel(), unbounded: send never blocks.
audio_callback ==
    /\ stream_alive
    /\ buf_len' = Min(buf_len + 1, MaxBuffer)
    /\ buf_sessions' = buf_sessions \cup {cap_session}
    /\ IF "vad_tx" \in senders /\ vad_pc # "exited"
       THEN vad_q < MaxQueue /\ vad_q' = vad_q + 1
       ELSE UNCHANGED vad_q
    /\ UNCHANGED <<cap_vad, cap_pc, vad_pc, stop_pc, cmd_q, senders,
                   stream_alive, event_q, cap_session, wav_out>>

\* VAD worker, lines 398-413: recv_timeout returned Ok(samples); process
\* yields n events (0 or 1 here) that are sent to event_rx
vad_recv(n) ==
    /\ vad_pc = "loop"
    /\ vad_q > 0
    /\ vad_q' = vad_q - 1
    /\ event_q' = Min(event_q + n, MaxEvents)
    /\ UNCHANGED <<cap_vad, cap_pc, vad_pc, stop_pc, cmd_q, senders,
                   stream_alive, buf_len,
                   cap_session, buf_sessions, wav_out>>

\* recv_timeout returned Err(Disconnected): the queue is empty and no Sender
\* is alive.  (Err(Timeout) is `continue`: the worker polls again.)
vad_disconnected ==
    /\ vad_pc = "loop"
    /\ vad_q = 0
    /\ senders = {}
    /\ vad_pc' = "exited"
    /\ UNCHANGED <<cap_vad, cap_pc, stop_pc, cmd_q, vad_q, senders,
                   stream_alive, event_q, buf_len,
                   cap_session, buf_sessions, wav_out>>

\* AudioCapture::stop, lines 306-310: take the handle, send Stop
stop_send ==
    /\ stop_pc = "idle"
    /\ stop_pc' = "joining"
    /\ cmd_q' = cmd_q + 1
    /\ UNCHANGED <<cap_vad, cap_pc, vad_pc, vad_q, senders, stream_alive,
                   event_q, buf_len,
                   cap_session, buf_sessions, wav_out>>

\* capture worker, lines 498-504: Stop received
cap_recv_stop ==
    /\ cap_pc = "command_loop"
    /\ cmd_q > 0
    /\ cmd_q' = cmd_q - 1
    /\ cap_pc' = "stopping"
    /\ UNCHANGED <<cap_vad, vad_pc, stop_pc, vad_q, senders, stream_alive,
                   event_q, buf_len,
                   cap_session, buf_sessions, wav_out>>

\* line 507: drop(vad_samples_tx)
cap_drop_tx ==
    /\ cap_pc = "stopping"
    /\ senders' = senders \ {"vad_samples_tx"}
    /\ cap_pc' = "join_vad"
    /\ UNCHANGED <<cap_vad, vad_pc, stop_pc, cmd_q, vad_q, stream_alive,
                   event_q, buf_len,
                   cap_session, buf_sessions, wav_out>>

\* lines 510-515: join the VAD worker if one was spawned, then return: only
\* now is the stream dropped, and with it the callback and its Sender
cap_join_vad ==
    /\ cap_pc = "join_vad"
    /\ cap_vad => vad_pc = "exited"
    /\ cap_pc' = "exited"
    /\ stream_alive' = FALSE
    /\ senders' = senders \ {"vad_tx"}
    /\ UNCHANGED <<cap_vad, vad_pc, stop_pc, cmd_q, vad_q, event_q, buf_len,
                   cap_session, buf_sessions, wav_out>>

\* AudioCapture::stop, line 312: thread_handle.join() returns
stop_join ==
    /\ stop_pc = "joining"
    /\ cap_pc = "exited"
    /\ stop_pc' = "returned"
    /\ UNCHANGED <<cap_vad, cap_pc, vad_pc, cmd_q, vad_q, senders,
                   stream_alive, event_q, buf_len,
                   cap_session, buf_sessions, wav_out>>

\* stop_and_get_wav, lines 295-302: stop() has returned, the buffer is
\* locked and encoded
get_wav ==
    /\ stop_pc = "returned"
    /\ stop_pc' = "wav"
    /\ wav_out' = [session |-> cap_session, sessions |-> buf_sessions,
                   len |-> buf_len]
    /\ UNCHANGED <<cap_vad, cap_pc, vad_pc, cmd_q, vad_q, senders,
                   stream_alive, event_q, buf_len, cap_session, buf_sessions>>

\* AudioCapture::start once more (lines 228-289), after a stop: its own
\* stop() finds no handle; a buffer, two channels and a capture thread are
\* created
start_keeps_buffer ==
    /\ stop_pc \in {"returned", "wav"}
    /\ cap_session < MaxCaptures
    /\ cap_session' = cap_session + 1
    /\ cap_pc' = "spawned" /\ vad_pc' = "none" /\ stop_pc' = "idle"
    /\ cmd_q' = 0 /\ vad_q' = 0 /\ senders' = {} /\ event_q' = 0
    /\ UNCHANGED <<cap_vad, stream_alive, wav_out, buf_len, buf_sessions>>

start ==
    /\ stop_pc \in {"returned", "wav"}
    /\ cap_session < MaxCaptures
    /\ cap_session' = cap_session + 1
    /\ buf_len' = 0 /\ buf_sessions' = {}
    /\ cap_pc' = "spawned" /\ vad_pc' = "none" /\ stop_pc' = "idle"
    /\ cmd_q' = 0 /\ vad_q' = 0 /\ senders' = {} /\ event_q' = 0
    /\ UNCHANGED <<cap_vad, stream_alive, wav_out>>

CapSpawnVad == cap_spawn_vad /\ UNCHANGED <<pvars, rvars, uvars>>
CapBuildStream == (\E ok \in BOOLEAN : cap_build_stream(ok)) /\ UNCHANGED <<pvars, rvars, uvars>>
AudioCallback == audio_callback /\ UNCHANGED <<pvars, rvars, uvars>>
VadRecv == (\E n \in {0, 1} : vad_recv(n)) /\ UNCHANGED <<pvars, rvars, uvars>>
VadDisconnected == vad_disconnected /\ UNCHANGED <<pvars, rvars, uvars>>
StopSend == stop_send /\ UNCHANGED <<pvars, rvars, uvars>>
CapRecvStop == cap_recv_stop /\ UNCHANGED <<pvars, rvars, uvars>>
CapDropTx == cap_drop_tx /\ UNCHANGED <<pvars, rvars, uvars>>
CapJoinVad == cap_join_vad /\ UNCHANGED <<pvars, rvars, uvars>>
StopJoin == stop_join /\ UNCHANGED <<pvars, rvars, uvars>>
GetWav == get_wav /\ UNCHANGED <<pvars, rvars, uvars>>
CapStart == start /\ UNCHANGED <<pvars, rvars, uvars>>

CaptureWorker == CapSpawnVad \/ CapBuildStream \/ CapRecvStop \/ CapDropTx \/ CapJoinVad
VadWorker == VadRecv \/ VadDisconnected
StopCaller == StopSend \/ StopJoin \/ GetWav \/ CapStart

CaptureNext ==
    \/ CapSpawnVad
    \/ CapBuildStream
    \/ AudioCallback
    \/ VadRecv
    \/ VadDisconnected
    \/ StopSend
    \/ CapRecvStop
    \/ CapDropTx
    \/ CapJoinVad
    \/ StopJoin
    \/ GetWav
    \/ CapStart

CaptureSpec == CaptureInit /\ [][CaptureNext]_vars

\* The three threads are OS threads and the device keeps calling the data
\* callback while the stream lives: each takes its next step when it has one.
FairCaptureSpec ==
    /\ CaptureSpec
    /\ WF_vars(CaptureWorker)
    /\ WF_vars(VadWorker)
    /\ WF_vars(StopJoin)
    /\ WF_vars(AudioCallback)


\* ------------------------------------------------------------------------
\* The retry utilities on their own (stt/retry.rs): one with_retry call fed
\* by a provider, and queries to delay_for_attempt and is_retryable_error
\* ------------------------------------------------------------------------
\* RetryConfig values: the default, one that does not want rate limits
\* retried, the one of test_max_delay_capping, and one with a 1 ms initial
\* delay under a cap of 10^13 ms
RetryPolicies ==
    { [max_retries |-> 3, initial_delay |-> Millis(500),
       max_delay |-> Millis(10000), retry_on_rate_limit |-> TRUE],
      [max_retries |-> 2, initial_delay |-> Millis(500),
       max_delay |-> Millis(10000), retry_on_rate_limit |-> FALSE],
      [max_retries |-> 3, initial_delay |-> Millis(500),
       max_delay |-> Millis(2000), retry_on_rate_limit |-> TRUE],
      [max_retries |-> 1, initial_delay |-> Millis(1),
       max_delay |-> BigMul(Big(10000000), Big(1000000)),
       retry_on_rate_limit |-> TRUE] }

\* response statuses and response texts of rejected requests
Statuses == {400, 401, 429, 500, 501, 503}
Bodies == {{}, {"500"}, {"rate limit"}}

AllErrors ==
    {ErrNetwork, ErrTimeout, ErrAudio, ErrConfig}
        \cup {ApiError(st, b) : st \in Statuses, b \in Bodies}

\* what the operation given to with_retry answers in a run
RunErrors ==
    {ErrNetwork, ErrConfig, ApiError(429, {}), ApiError(500, {}), ApiError(400, {"500"})}
RunResults(attempt) ==
    {SttOk(AttemptText(attempt))} \cup {SttErr(e) : e \in RunErrors}

RetryInit ==
    /\ PInit /\ config = CfgA /\ CIdle /\ UIdle
    /\ rtask \in {[InitTask EXCEPT !.pc = "retry", !.retry_config = rc] :
                     rc \in RetryPolicies}
    /\ rres = NoAnswer
    /\ r_n = -1 /\ r_delay = Big(0)
    /\ r_err = NoErr /\ r_retry = FALSE

\* one poll of the with_retry future (run to completion: nothing races it)
retry_poll(x, woke) ==
    /\ rtask.pc = "retry"
    /\ r_n = -1 /\ r_err = NoErr
    /\ x \in RunResults(rtask.attempt) \cup {NoAnswer}
    /\ rtask.phase # "call" => x = NoAnswer
    /\ rtask.phase # "sleep" => ~woke
    /\ with_retry_ready(rtask, x, woke)
    /\ rtask' = IF with_retry(rtask, x).res = NoAnswer
                THEN with_retry(rtask, x).task
                ELSE [with_retry(rtask, x).task EXCEPT !.pc = "returned"]
    /\ rres' = with_retry(rtask, x).res
    /\ UNCHANGED <<r_n, r_delay, r_err, r_retry>>

\* config.delay_for_attempt(r_n + 1)
delay_query ==
    /\ rtask.pc = "retry" /\ rtask.phase = "start"
    /\ r_err = NoErr
    /\ r_n < MaxAttemptIndex
    /\ r_n' = r_n + 1
    /\ r_delay' = delay_for_attempt(rtask.retry_config, r_n + 1)
    /\ UNCHANGED <<rtask, rres, r_err, r_retry>>

\* is_retryable_error(&e)
classify(e) ==
    /\ rtask.pc = "retry" /\ rtask.phase = "start"
    /\ r_n = -1
    /\ e # r_err
    /\ r_err' = e
    /\ r_retry' = is_retryable_error(e)
    /\ UNCHANGED <<rtask, rres, r_n, r_delay>>

RetryPoll ==
    /\ \E x \in RunResults(rtask.attempt) \cup {NoAnswer}, woke \in BOOLEAN :
          retry_poll(x, woke)
    /\ UNCHANGED <<pvars, cvars, uvars>>
DelayQuery == delay_query /\ UNCHANGED <<pvars, cvars, uvars>>
Classify == (\E e \in AllErrors : classify(e)) /\ UNCHANGED <<pvars, cvars, uvars>>

RetryNext ==
    \/ RetryPoll
    \/ DelayQuery
    \/ Classify

RetrySpec == RetryInit /\ [][RetryNext]_vars

\* ------------------------------------------------------------------------
\* State queries (pipeline.rs 569-575, 642-648, 658-664) made by several
\* threads of an idle pipeline.  A query is self.inner.lock().map(|inner|
\* ...).unwrap_or(default): it takes the pipeline mutex, reads the state and
\* drops the guard at the end of the expression.
\* ------------------------------------------------------------------------
QueryOps == {"state", "is_recording", "is_error"}

\* the defaults of unwrap_or, returned when the lock cannot be taken
query_answer_poisoned(op, s) ==
    CASE op = "state" -> "Error"
      [] op = "is_recording" -> "false"
      [] op = "is_error" -> "true"

\* what the closure given to map returns for the state s
query_answer(op, s) ==
    CASE op = "state" -> s
      [] op = "is_recording" -> IF s = "Recording" THEN "true" ELSE "false"
      [] op = "is_error" -> IF s = "Error" THEN "true" ELSE "false"

\* self.inner.lock() returns the guard
query_lock(q, op) ==
    /\ mutex_free
    /\ queries[q].pc = "idle"
    /\ queries[q].calls < MaxQueryCalls
    /\ queries' = [queries EXCEPT ![q] = [pc |-> "locked", op |-> op, ans |-> None,
                                          calls |-> queries[q].calls]]

\* the closure runs, the guard is dropped and the call returns
query_return(q) ==
    /\ queries[q].pc = "locked"
    /\ queries' = [queries EXCEPT ![q] =
                      [pc |-> "idle", op |-> queries[q].op,
                       ans |-> query_answer(queries[q].op, state),
                       calls |-> queries[q].calls + 1]]

QueryCaller(q) ==
    /\ (\E op \in QueryOps : query_lock(q, op)) \/ query_return(q)
    /\ UNCHANGED <<pvars, cvars, rvars, bvars, vvars, lvars, fvars, dvars>>

QueryLock ==
    /\ \E q \in Callers, op \in QueryOps : query_lock(q, op)
    /\ UNCHANGED <<pvars, cvars, rvars, bvars, vvars, lvars, fvars, dvars>>
QueryReturn ==
    /\ \E q \in Callers : query_return(q)
    /\ UNCHANGED <<pvars, cvars, rvars, bvars, vvars, lvars, fvars, dvars>>

\* a new pipeline: no session has been started
QueryInit == PInit /\ CIdle /\ RIdle /\ UIdle

\* the queries, and the operations that start no session
QueryNext ==
    \/ QueryLock
    \/ QueryReturn
    \/ StopRecording
    \/ UpdateConfig
    \/ Cancel
    \/ ForceReset

QuerySpec == QueryInit /\ [][QueryNext]_vars

\* every caller is a thread of its own: it takes its next step when it can
FairQuerySpec == QuerySpec /\ \A q \in Callers : WF_vars(QueryCaller(q))

\* ------------------------------------------------------------------------
\* An AudioBuffer on its own: appends, encoding to WAV, reading the WAV back
\* ------------------------------------------------------------------------
\* buffers of a few samples (some with a fraction of a second as the limit,
\* some stereo), and the buffer of test_audio_buffer_max_duration
BufferConfigs ==
    {AudioBuffer_new(r, c, d) : r \in {1, 2}, c \in {1, 2}, d \in {5, 10, 15}}
        \cup {AudioBuffer_new(1000, 1, 10)}

\* the slices a buffer is fed: a few samples, or whole seconds for the
\* buffer of the test
SliceLengths(b) == IF b.sample_rate = 1000 THEN {1000, 2000} ELSE 0..MaxSlice
StreamLimit(b) == IF b.sample_rate = 1000 THEN 3000 ELSE MaxAppended

\* the next k samples of the stream
Slice(n, k) == [i \in 1..k |-> n + i]

BufferInit ==
    /\ PInit /\ config = CfgA /\ CIdle /\ RIdle /\ QIdle /\ VIdle /\ LIdle
    /\ FIdle /\ DIdle
    /\ abuf \in BufferConfigs
    /\ appended = 0
    /\ wav = NoWav
    /\ decoded = NoDecoded

buffer_append(k) ==
    /\ appended + k <= StreamLimit(abuf)
    /\ abuf' = append(abuf, Slice(appended, k))
    /\ appended' = appended + k
    /\ wav' = NoWav
    /\ decoded' = NoDecoded

buffer_to_wav ==
    /\ wav = NoWav
    /\ wav' \in to_wav_bytes(abuf)
    /\ UNCHANGED <<abuf, appended, decoded>>

buffer_read_wav ==
    /\ wav.ok
    /\ decoded = NoDecoded
    /\ decoded' = wav_read(wav)
    /\ UNCHANGED <<abuf, appended, wav>>

BufferAppend ==
    /\ \E k \in SliceLengths(abuf) : buffer_append(k)
    /\ UNCHANGED <<pvars, cvars, rvars, qvars, vvars, lvars, fvars, dvars>>
BufferToWav == buffer_to_wav /\ UNCHANGED <<pvars, cvars, rvars, qvars, vvars, lvars, fvars, dvars>>
BufferReadWav == buffer_read_wav /\ UNCHANGED <<pvars, cvars, rvars, qvars, vvars, lvars, fvars, dvars>>

BufferNext ==
    \/ BufferAppend
    \/ BufferToWav
    \/ BufferReadWav

BufferSpec == BufferInit /\ [][BufferNext]_vars

\* ------------------------------------------------------------------------
\* A VoiceActivityDetector on its own, fed frame after frame
\* ------------------------------------------------------------------------
VadConfigs ==
    [speech_frames_threshold : 0..2, hangover_frames : 0..2,
     pre_roll_ms : {0, 25, 30}, frame_duration_ms : {10, 30}]

VadInit ==
    /\ PInit /\ config = CfgA /\ CIdle /\ RIdle /\ QIdle /\ BIdle /\ LIdle
    /\ FIdle /\ DIdle
    /\ detector \in {VoiceActivityDetector_new(c) : c \in VadConfigs}
    /\ vad_hist = NoFrames

\* one call of process_frame, with the answer of the classifier
vad_process(answer) ==
    LET res == process_frame(detector, Frame(vad_hist.n + 1), answer)
        class == IF is_speech(answer) THEN "speech" ELSE "silence"
    IN  /\ vad_hist.n < MaxFrames
        /\ detector' = res.detector
        /\ vad_hist' = [n |-> vad_hist.n + 1,
                        class |-> class,
                        run |-> IF class = vad_hist.class THEN vad_hist.run + 1 ELSE 1,
                        event |-> res.event,
                        was_speaking |-> detector.is_speaking,
                        resets |-> vad_hist.resets,
                        prev |-> IF vad_hist.event.kind # "None"
                                 THEN vad_hist.event.kind ELSE vad_hist.prev]

\* one call of reset
vad_reset ==
    /\ vad_hist.n > 0
    /\ vad_hist.resets < MaxResets
    /\ detector' = reset(detector)
    /\ vad_hist' = [NoFrames EXCEPT !.resets = vad_hist.resets + 1]

VadProcess ==
    /\ \E answer \in VoiceAnswers : vad_process(answer)
    /\ UNCHANGED <<pvars, cvars, rvars, qvars, bvars, lvars, fvars, dvars>>

VadReset == vad_reset /\ UNCHANGED <<pvars, cvars, rvars, qvars, bvars, lvars, fvars, dvars>>

VadNext == VadProcess \/ VadReset

VadSpec == VadInit /\ [][VadNext]_vars

\* ------------------------------------------------------------------------
\* A RequestLogStore used by two threads.  `current` and `logs` are guarded
\* by a mutex each; a call is split where it has to take a mutex while it
\* holds the other one.
\* ------------------------------------------------------------------------
Limits == {Nothing, Some(0), Some(1), Some(2)}

LogInit ==
    /\ PInit /\ config = CfgA /\ CIdle /\ RIdle /\ QIdle /\ BIdle /\ VIdle
    /\ FIdle /\ DIdle
    /\ store = NewStore
    /\ log_threads = [t \in LogThreads |-> IdleLogThread]

SetLogThread(t, r) == log_threads' = [log_threads EXCEPT ![t] = r]

\* start_request, line 213, and complete_current, line 240:
\* self.current.lock()
log_lock_current(t, op) ==
    /\ log_threads[t].pc = "idle"
    /\ store.current_lock = None
    /\ op = "start_request" => store.next_id <= MaxRequests
    /\ store' = [store EXCEPT !.current_lock = t]
    /\ SetLogThread(t, [IdleLogThread EXCEPT !.pc = op])

\* start_request, lines 216-226: an existing request is finalized and stored
\* (store_log locks `logs`), the new one becomes current
start_request(t) ==
    /\ log_threads[t].pc = "start_request"
    /\ store.current # Nothing => store.logs_lock = None
    /\ store' = [store EXCEPT
                    !.logs = IF store.current # Nothing
                             THEN store_log(store.logs, finalized(store.current[1]))
                             ELSE store.logs,
                    !.current = Some(RequestLog_new(store.next_id)),
                    !.next_id = store.next_id + 1,
                    !.current_lock = None]
    /\ SetLogThread(t, [IdleLogThread EXCEPT !.returned = "start_request"])

\* complete_current, lines 241-243
complete_current(t) ==
    /\ log_threads[t].pc = "complete_current"
    /\ store.current # Nothing => store.logs_lock = None
    /\ store' = [store EXCEPT
                    !.logs = IF store.current # Nothing
                             THEN store_log(store.logs, store.current[1])
                             ELSE store.logs,
                    !.current = Nothing,
                    !.current_lock = None]
    /\ SetLogThread(t, [IdleLogThread EXCEPT !.returned = "complete_current"])

\* with_current(|log| log.complete_success()) (lines 230-236, 158-165)
with_current(t) ==
    /\ log_threads[t].pc = "idle"
    /\ store.current_lock = None
    /\ store.current # Nothing
    /\ store.current[1].status = "InProgress"
    /\ store' = [store EXCEPT !.current = Some([store.current[1] EXCEPT
                                                   !.status = "Success"])]
    /\ SetLogThread(t, [IdleLogThread EXCEPT !.returned = "with_current"])

\* clear (lines 278-281)
clear(t) ==
    /\ log_threads[t].pc = "idle"
    /\ store.logs_lock = None
    /\ store.logs # <<>>
    /\ store' = [store EXCEPT !.logs = <<>>]
    /\ SetLogThread(t, [IdleLogThread EXCEPT !.returned = "clear"])

\* get_logs, line 257: self.logs.lock()
get_logs_lock_logs(t, limit) ==
    /\ log_threads[t].pc = "idle"
    /\ store.logs_lock = None
    /\ store' = [store EXCEPT !.logs_lock = t]
    /\ SetLogThread(t, [IdleLogThread EXCEPT !.pc = "get_logs", !.limit = limit])

\* get_logs, lines 258-275: self.current.lock(), the result, both guards
\* dropped
get_logs_return(t) ==
    /\ log_threads[t].pc = "get_logs"
    /\ store.current_lock = None
    /\ store' = [store EXCEPT !.logs_lock = None]
    /\ SetLogThread(t, [pc |-> "idle", limit |-> log_threads[t].limit,
                        returned |-> "get_logs",
                        result |-> get_logs(store.logs, store.current,
                                            log_threads[t].limit)])

LogLockCurrent ==
    /\ \E t \in LogThreads, op \in {"start_request", "complete_current"} :
          log_lock_current(t, op)
    /\ UNCHANGED <<pvars, cvars, rvars, qvars, bvars, vvars, fvars, dvars>>
StartRequest ==
    /\ \E t \in LogThreads : start_request(t)
    /\ UNCHANGED <<pvars, cvars, rvars, qvars, bvars, vvars, fvars, dvars>>
CompleteCurrent ==
    /\ \E t \in LogThreads : complete_current(t)
    /\ UNCHANGED <<pvars, cvars, rvars, qvars, bvars, vvars, fvars, dvars>>
WithCurrent ==
    /\ \E t \in LogThreads : with_current(t)
    /\ UNCHANGED <<pvars, cvars, rvars, qvars, bvars, vvars, fvars, dvars>>
ClearLogs ==
    /\ \E t \in LogThreads : clear(t)
    /\ UNCHANGED <<pvars, cvars, rvars, qvars, bvars, vvars, fvars, dvars>>
GetLogsLockLogs ==
    /\ \E t \in LogThreads, limit \in Limits : get_logs_lock_logs(t, limit)
    /\ UNCHANGED <<pvars, cvars, rvars, qvars, bvars, vvars, fvars, dvars>>
GetLogsReturn ==
    /\ \E t \in LogThreads : get_logs_return(t)
    /\ UNCHANGED <<pvars, cvars, rvars, qvars, bvars, vvars, fvars, dvars>>

LogNext ==
    \/ LogLockCurrent
    \/ StartRequest
    \/ CompleteCurrent
    \/ WithCurrent
    \/ ClearLogs
    \/ GetLogsLockLogs
    \/ GetLogsReturn

LogSpec == LogInit /\ [][LogNext]_vars

\* ------------------------------------------------------------------------
\* A VadFrameProcessor fed in chunks
\* ------------------------------------------------------------------------
ProcessorConfigs ==
    [speech_frames_threshold : {1}, hangover_frames : {1},
     pre_roll_ms : {30}, frame_duration_ms : {20, 30}]

\* the device rates: the detector's own, 1.5 times and twice that
SourceRates == {VAD_RATE, (3 * VAD_RATE) \div 2, 2 * VAD_RATE}

\* the most frames one call can hand to the detector
MaxCallFrames == (MaxChunk + 4) \div 2

ProcessorInit ==
    /\ PInit /\ config = CfgA /\ CIdle /\ RIdle /\ QIdle /\ BIdle /\ VIdle /\ LIdle
    /\ DIdle
    /\ processor \in {VadFrameProcessor_new(c, r) : c \in ProcessorConfigs,
                                                     r \in SourceRates}
    /\ proc_hist = NoInput

\* one call of process with the next n samples of the stream
processor_process(n, outcome, answers) ==
    LET samples == [i \in 1..n |-> proc_hist.fed + i]
        st == process(processor, proc_hist, samples, outcome, answers)
    IN  /\ proc_hist.fed + n <= MaxInput
        /\ proc_hist.calls < MaxCalls
        /\ processor' = st.p
        /\ proc_hist' = st.h

ProcessorProcess ==
    /\ \E n \in 0..MaxChunk, outcome \in ResampleOutcomes,
          answers \in [1..MaxCallFrames -> {"voice", "quiet"}] :
              processor_process(n, outcome, answers)
    /\ UNCHANGED <<pvars, cvars, rvars, qvars, bvars, vvars, lvars, dvars>>

ProcessorNext == ProcessorProcess

ProcessorSpec == ProcessorInit /\ [][ProcessorNext]_vars

\* ------------------------------------------------------------------------
\* A recordings directory that is filled and pruned
\* ------------------------------------------------------------------------
FileNames == 1..MaxFiles

RecordingsInit ==
    /\ PInit /\ config = CfgA /\ CIdle /\ RIdle /\ QIdle /\ BIdle /\ VIdle /\ LIdle
    /\ FIdle
    /\ rec_dir = {}
    /\ prune_hist = NoPrune

\* save_wav (lines 83-104) writes <id>.wav; the directory may also hold
\* entries that are no .wav files
save_wav(name, mtime) ==
    /\ prune_hist.calls = 0
    /\ \A f \in rec_dir : f.name < name
    /\ rec_dir' = rec_dir \cup {WavFile(name, mtime)}
    /\ UNCHANGED prune_hist

other_entry(name) ==
    /\ prune_hist.calls = 0
    /\ \A f \in rec_dir : f.name < name
    /\ rec_dir' = rec_dir \cup {OtherFile(name)}
    /\ UNCHANGED prune_hist

\* one call of prune_to_max_files
prune(max_keep, readable, unstat, order, undeletable) ==
    LET res == prune_to_max_files(rec_dir, max_keep, readable, unstat, order,
                                  undeletable)
    IN  /\ prune_hist.calls = 0
        /\ rec_dir' = res.dir
        /\ prune_hist' = [calls |-> 1, max_keep |-> max_keep, unstat |-> unstat,
                          ok |-> res.ok, deleted |-> res.deleted,
                          attempted |-> res.attempted, before |-> rec_dir]

SaveWav ==
    /\ \E name \in FileNames, mtime \in 1..MaxMtime : save_wav(name, mtime)
    /\ UNCHANGED <<pvars, cvars, rvars, qvars, bvars, vvars, lvars, fvars>>
OtherEntry ==
    /\ \E name \in FileNames : other_entry(name)
    /\ UNCHANGED <<pvars, cvars, rvars, qvars, bvars, vvars, lvars, fvars>>
Prune ==
    /\ prune_hist.calls = 0
    /\ \E max_keep \in 0..MaxFiles - 1, readable \in BOOLEAN,
          unstat \in {{}} \cup {{f.name} : f \in WavFiles(rec_dir)},
          undeletable \in {{}} \cup {{f.name} : f \in WavFiles(rec_dir)} :
          \E order \in SortedOrders(listed(rec_dir, unstat)) :
              prune(max_keep, readable, unstat, order, undeletable)
    /\ UNCHANGED <<pvars, cvars, rvars, qvars, bvars, vvars, lvars, fvars>>

RecordingsNext == SaveWav \/ OtherEntry \/ Prune

RecordingsSpec == RecordingsInit /\ [][RecordingsNext]_vars

\* ========================================================================
\* Properties
\* ========================================================================
\* the retry table of the specification, stated on its own: transport errors
\* and timeouts are retried, configuration errors are not
TransientError(e) == e.kind \in {"Network", "Timeout"}

Done(t) == tasks[t].pc = "done"

\* C1: at most one session is live at a time: while a stop_and_transcribe
\* call is between its entry into Transcribing and its return, no other
\* session is being recorded and no other session's call is in flight.
C1_SingleActiveSession ==
    \A t \in Tasks :
        InFlight(t) =>
            /\ ~(state = "Recording" /\ session # tasks[t].session)
            /\ \A u \in Tasks : InFlight(u) => tasks[u].session = tasks[t].session

\* C2: an accepted cancel() leaves the state Idle, and the next thing the
\* cancelled session's in-flight stop_and_transcribe does to the pipeline
\* does not move the state to Error.
C2_CancelNeverError ==
    [][ /\ (last_op'.op = "cancel" /\ last_op'.ret = "Ok") => state' = "Idle"
        /\ \A t \in Tasks :
              ( /\ last_op.op = "cancel" /\ last_op.ret = "Ok"
                /\ InFlight(t) /\ tasks[t].token \in cancelled
                /\ tasks'[t] # tasks[t] )
              => state' # "Error" ]_vars

\* C3: the guards are a total function of the state alone: starting is allowed
\* exactly in Idle and Error, stopping exactly in Recording, cancelling exactly
\* in Recording and Transcribing; every operation is accepted or rejected
\* accordingly.
C3_GuardTable ==
    /\ state \in PipelineState
    /\ \A s \in PipelineState :
          /\ can_start_recording(s) <=> s \in {"Idle", "Error"}
          /\ can_stop_recording(s) <=> s = "Recording"
          /\ can_cancel(s) <=> s \in {"Recording", "Transcribing"}
    /\ last_op.op = "start_recording" =>
          (last_op.ret = "AlreadyRecording" <=> last_op.pre \in {"Recording", "Transcribing"})
    /\ last_op.op \in {"stop_recording", "stop_and_transcribe"} =>
          (last_op.ret = "NotRecording" <=> last_op.pre # "Recording")
    /\ last_op.op = "cancel" =>
          (last_op.ret = "Nothing" <=> last_op.pre \in {"Idle", "Error"})

C3_Witness ==
    last_op.op = "cancel" /\ last_op.pre = "Transcribing" /\ last_op.ret = "Ok"

\* C4: in the transcription race and in the rewrite race, a poll that finds
\* the session's token cancelled resolves the race as Cancelled, whatever
\* else is ready.
C4_CancelPriority ==
    [][ \A t \in Tasks :
          /\ ( /\ tasks[t].pc = "race1" /\ tasks'[t].pc # "race1"
               /\ tasks[t].token \in cancelled )
             => (tasks'[t].pc = "fin1" /\ tasks'[t].stt_outcome = "Cancelled")
          /\ ( /\ tasks[t].pc = "race2" /\ tasks'[t].pc # "race2"
               /\ tasks[t].token \in cancelled )
             => (tasks'[t].pc = "fin2" /\ tasks'[t].llm_outcome = "Cancelled") ]_vars

C4_Witness ==
    \E t \in Tasks :
        /\ tasks[t].stt_outcome = "Cancelled"
        /\ tasks[t].stt_ready = {"cancel", "timer", "primary"}

\* the case of C5: the provider failed twice with transient errors, its third
\* attempt succeeded, max_retries >= 2, the call was not cancelled and its
\* deadline was not reached
FailsTwiceThenSucceeds(t) ==
    /\ Done(t)
    /\ tasks[t].retry_config.max_retries >= 2
    /\ Len(tasks[t].log) = 3
    /\ ~tasks[t].log[1].ok /\ TransientError(tasks[t].log[1].err)
    /\ ~tasks[t].log[2].ok /\ TransientError(tasks[t].log[2].err)
    /\ tasks[t].log[3].ok
    /\ tasks[t].stt_outcome = "Ok"
    /\ ~tasks[t].cancelled_at_end /\ tasks[t].llm_outcome # "Cancelled"

TwoBackoffSleeps(rc) ==
    << BigMin(rc.initial_delay, rc.max_delay),
       BigMin(BigDouble(rc.initial_delay), rc.max_delay) >>

\* C5 as stated: when the provider fails twice with transient errors and then
\* succeeds, stop_and_transcribe returns the third attempt's text after
\* exactly two backoff sleeps (initial_delay, then twice that, capped), and
\* leaves the state Idle.
C5_ReturnsThirdAttemptText ==
    \A t \in Tasks :
        FailsTwiceThenSucceeds(t) =>
            /\ tasks[t].result = Ok(tasks[t].log[3].text)
            /\ tasks[t].sleeps = TwoBackoffSleeps(tasks[t].retry_config)
            /\ tasks[t].final_state = "Idle"

\* C5, amended: in that case the third attempt's text is the transcript; the
\* call returns it as it is when no rewrite provider is configured or the
\* rewrite times out or fails, and returns the rewrite provider's output for
\* it when the rewrite succeeds; exactly two backoff sleeps were made and the
\* state is left Idle.
C5_ReturnsThirdAttemptTextOrItsRewrite ==
    \A t \in Tasks :
        FailsTwiceThenSucceeds(t) =>
            /\ tasks[t].transcript = tasks[t].log[3].text
            /\ tasks[t].result =
                  IF tasks[t].llm # None /\ tasks[t].llm_outcome = "Ok"
                  THEN Ok(Formatted(tasks[t].log[3].text))
                  ELSE Ok(tasks[t].log[3].text)
            /\ tasks[t].sleeps = TwoBackoffSleeps(tasks[t].retry_config)
            /\ tasks[t].final_state = "Idle"

C5_Witness ==
    \E t \in Tasks :
        /\ FailsTwiceThenSucceeds(t)
        /\ tasks[t].llm_outcome = "Ok"
        /\ tasks[t].sleeps = <<Millis(500), Millis(800)>>

\* C6: with_retry invokes the operation at most max_retries + 1 times; it
\* stops at the first success and at the first non-retryable error, without
\* sleeping after it; when it returns, it has slept once less than it has
\* invoked the operation.
C6_RetryBounds ==
    \A t \in Tasks :
        LET r == tasks[t] IN
        /\ r.calls <= r.retry_config.max_retries + 1
        /\ Len(r.log) <= r.calls
        /\ Len(r.sleeps) <= r.calls
        /\ \A i \in 1..Len(r.log) :
              i < Len(r.log) => (~r.log[i].ok /\ TransientError(r.log[i].err))
        /\ r.stt_outcome \in {"Ok", "SttError"} =>
              /\ Len(r.log) = r.calls
              /\ Len(r.sleeps) = r.calls - 1
              /\ \/ r.log[r.calls].ok
                 \/ ~TransientError(r.log[r.calls].err)
                 \/ r.calls = r.retry_config.max_retries + 1

C6_Witness ==
    \E t \in Tasks :
        /\ tasks[t].stt_outcome = "SttError"
        /\ tasks[t].retry_config.max_retries = 2
        /\ tasks[t].calls = 3
        /\ Len(tasks[t].sleeps) = 2
        /\ TransientError(tasks[t].log[3].err)

\* C7: with a rewrite provider configured, a rewrite that times out or fails
\* makes stop_and_transcribe return Ok with the raw transcript and leave the
\* state Idle: it is never an error of the pipeline.
C7_RewriteFailureFallsBack ==
    \A t \in Tasks :
        ( /\ Done(t)
          /\ tasks[t].llm # None
          /\ tasks[t].llm_outcome \in {"Timeout", "Error"} )
        => /\ tasks[t].result = Ok(tasks[t].transcript)
           /\ tasks[t].transcript = tasks[t].log[Len(tasks[t].log)].text
           /\ tasks[t].final_state = "Idle"
           /\ state = "Idle"

C7_Witness ==
    \E t \in Tasks :
        /\ Done(t)
        /\ tasks[t].llm_outcome = "Timeout"
        /\ tasks[t].result = Ok(AttemptText(0))

\* C8: update_config does not touch a session in flight: the size limit, the
\* provider, the retry settings, the deadline and the rewrite provider that
\* stop_and_transcribe applies to a session are those of the configuration
\* the session was started under.
C8_ConfigFixedAtStart ==
    \A t \in Tasks :
        (tasks[t].pc # "init" /\ tasks[t].start_cfg # Nothing) =>
            LET c == tasks[t].start_cfg[1] IN
            /\ tasks[t].limit = c.max_recording_bytes
            /\ tasks[t].provider = registered_provider(c)
            /\ tasks[t].retry_config = c.retry_config
            /\ tasks[t].timeout = c.transcription_timeout
            /\ tasks[t].llm = created_llm_provider(c)

\* C9: with VAD enabled, once stop() is requested on an active capture (the
\* stream is running), the VAD worker exits, the capture worker exits and
\* stop() returns.
C9_StopCompletes ==
    (cap_vad /\ stream_alive /\ stop_pc = "joining")
        ~> (vad_pc = "exited" /\ cap_pc = "exited" /\ stop_pc = "returned")

\* why C9 fails: while the capture worker waits for the VAD worker, the
\* callback's Sender is still alive
VadChannelStaysConnected ==
    (cap_vad /\ cap_pc = "join_vad" /\ vad_pc = "loop") => "vad_tx" \in senders

\* C10: force_reset, called in any state, leaves the state Idle, the session's
\* token cancelled and removed, and no capture handle.
C10_ForceResetAlwaysIdle ==
    last_op.op = "force_reset" =>
        /\ state = "Idle"
        /\ cancel_token = NoToken
        /\ ~capture.active
        /\ last_op.pre \in {"Recording", "Transcribing"} => session \in cancelled

\* C11: a stop_and_transcribe call that raced ends with exactly one outcome
\* of the transcription race and, when that was a transcript and a rewrite
\* provider is present, exactly one outcome of the rewrite race; what it
\* returns and the state it leaves follow these outcomes: Ok(text) and
\* Cancelled leave Idle, Timeout and a provider error leave Error.
C11_OutcomeDecidesFinalState ==
    \A t \in Tasks :
        LET r == tasks[t] IN
        (Done(t) /\ r.stt_outcome # None) =>
            /\ r.stt_outcome \in {"Ok", "Cancelled", "Timeout", "SttError"}
            /\ state = r.final_state
            /\ r.stt_outcome = "Cancelled" =>
                  (r.result = Err("Cancelled") /\ r.final_state = "Idle")
            /\ r.stt_outcome = "Timeout" =>
                  (r.result = Err("Timeout") /\ r.final_state = "Error")
            /\ r.stt_outcome = "SttError" =>
                  /\ r.result = ErrStt(r.log[Len(r.log)].err)
                  /\ r.final_state = "Error"
                  /\ \/ ~TransientError(r.log[Len(r.log)].err)
                     \/ r.calls = r.retry_config.max_retries + 1
            /\ r.stt_outcome # "Ok" => r.llm_outcome = None
            /\ r.stt_outcome = "Ok" =>
                  /\ r.llm = None <=> r.llm_outcome = None
                  /\ r.llm_outcome \in {None, "Ok", "Timeout", "Error", "Cancelled"}
                  /\ r.llm_outcome = "Cancelled" =>
                        (r.result = Err("Cancelled") /\ r.final_state = "Idle")
                  /\ r.llm_outcome # "Cancelled" =>
                        (r.result.tag = "Ok" /\ r.final_state = "Idle")

C11_Witness ==
    \E t \in Tasks :
        /\ Done(t)
        /\ tasks[t].stt_outcome = "SttError"
        /\ tasks[t].result = ErrStt(ErrConfig)
        /\ state = "Error"

\* C12: a transcription timeout is terminal: once the race resolved to
\* Timeout the call starts no further attempt and no further backoff sleep,
\* never runs the rewrite step, returns Timeout and sets the state to Error.
C12_TimeoutIsTerminal ==
    [][ \A t \in Tasks :
          (tasks[t].stt_outcome = "Timeout" /\ tasks'[t] # tasks[t]) =>
             \/ tasks'[t] = InitTask
             \/ /\ tasks[t].pc = "fin1" /\ tasks'[t].pc = "done"
                /\ tasks'[t].calls = tasks[t].calls
                /\ tasks'[t].sleeps = tasks[t].sleeps
                /\ tasks'[t].log = tasks[t].log
                /\ tasks'[t].llm_outcome = None
                /\ tasks'[t].result = Err("Timeout")
                /\ state' = "Error" ]_vars

C12_Witness ==
    \E t \in Tasks :
        /\ Done(t)
        /\ tasks[t].stt_outcome = "Timeout"
        /\ tasks[t].phase = "sleep"
        /\ tasks[t].llm # None

\* C13 as stated: a call rejected by a state guard (AlreadyRecording,
\* NotRecording) leaves the pipeline state Error.
C13_GuardViolationSetsError ==
    last_op.ret \in {"AlreadyRecording", "NotRecording"} => state = "Error"

\* C13, amended: a call rejected by a state guard returns its error at once
\* and writes nothing: the state, the cancellation token and the capture
\* handle are what they were.
C13_GuardViolationChangesNothing ==
    [][ ( /\ last_op' # last_op
          /\ last_op'.ret \in {"AlreadyRecording", "NotRecording"} )
        => /\ state' = state
           /\ state = last_op'.pre
           /\ cancel_token' = cancel_token
           /\ capture' = capture
           /\ wedged' = wedged ]_vars

C13_Witness ==
    /\ last_op.op = "start_recording"
    /\ last_op.ret = "AlreadyRecording"
    /\ last_op.pre = "Transcribing"
    /\ state = "Transcribing"

C15_StartFailureSurfaces ==
    ( /\ last_op.op = "start_recording"
      /\ \/ last_op.ret \in {"NoInputDevice", "DeviceConfig"}
         \/ capture.active /\ capture.worker = "failed" )
    => /\ last_op.ret # "Ok"
       /\ state = "Error"
       /\ cancel_token = NoToken
       /\ ~capture.active
       /\ can_start_recording(state)

\* an Api error whose only retry signals are those of a rate limit
RateLimitedOnly(e) ==
    /\ e.kind = "Api"
    /\ e.msg # {}
    /\ e.msg \subseteq {"429", "rate limit", "too many requests"}

\* C16: retry_on_rate_limit decides whether a rate-limit response is
\* retried: when the first attempt of with_retry fails with a rate-limited
\* Api error, a policy with retry_on_rate_limit = FALSE returns that error
\* after this single attempt without sleeping, and a policy with TRUE (and
\* attempts left) goes on to a backoff sleep.
C16_RateLimitFlagDecides ==
    (Len(rtask.log) >= 1 /\ ~rtask.log[1].ok /\ RateLimitedOnly(rtask.log[1].err)) =>
        IF rtask.retry_config.retry_on_rate_limit
        THEN rtask.retry_config.max_retries >= 1 =>
                (Len(rtask.sleeps) >= 1 /\ rres # rtask.log[1])
        ELSE /\ rtask.calls = 1
             /\ rtask.sleeps = <<>>
             /\ rres = rtask.log[1]

\* C17: classification for retry: Network and Timeout errors are retryable,
\* Audio and Config errors are not, and an Api error is retryable only when
\* the response status is a server error (5xx) or 429: a rejection with any
\* other status is not retryable, whatever its text contains.
C17_Classification ==
    r_err # NoErr =>
        /\ r_err.kind \in {"Network", "Timeout"} => r_retry
        /\ r_err.kind \in {"Audio", "Config"} => ~r_retry
        /\ r_err.kind = "Api" =>
              (r_retry => (r_err.status \in 500..599 \/ r_err.status = 429))

\* min(initial_delay * 2^n, max_delay)
IdealDelay(rc, n) == BigMin(BigMul(rc.initial_delay, BigPow2(n)), rc.max_delay)

\* what C18 says besides the formula: the delay never exceeds max_delay, does
\* not decrease with n, and takes the values of the unit tests
DelayIsCappedAndMonotone(rc, n, d) ==
    /\ BigLeq(d, rc.max_delay)
    /\ n > 0 => BigLeq(delay_for_attempt(rc, n - 1), d)
    /\ (rc.initial_delay = Millis(500) /\ rc.max_delay = Millis(10000) /\ n <= 3)
          => d = Millis(500 * Pow2(n))
    /\ (rc.initial_delay = Millis(500) /\ rc.max_delay = Millis(2000) /\ n = 10)
          => d = Millis(2000)

\* C18 as stated: delay_for_attempt(n) = min(initial_delay * 2^n, max_delay)
\* for every attempt index n; it is non-decreasing in n and at most max_delay.
C18_DelayIsCappedDoubling ==
    r_n >= 0 =>
        /\ r_delay = IdealDelay(rtask.retry_config, r_n)
        /\ DelayIsCappedAndMonotone(rtask.retry_config, r_n, r_delay)

\* C18, amended: delay_for_attempt(n) = min(initial_delay * 2^n, max_delay)
\* for n up to 31; from n = 32 on the factor is 2^32 - 1 instead of 2^n, so
\* the delay is min(initial_delay * (2^32 - 1), max_delay); for every n it is
\* non-decreasing in n and at most max_delay.
C18_DelayIsCappedSaturatedDoubling ==
    r_n >= 0 =>
        /\ r_n <= 31 => r_delay = IdealDelay(rtask.retry_config, r_n)
        /\ r_n >= 32 =>
              r_delay = BigMin(BigMul(rtask.retry_config.initial_delay, u32_MAX),
                               rtask.retry_config.max_delay)
        /\ DelayIsCappedAndMonotone(rtask.retry_config, r_n, r_delay)

C18_Witness ==
    /\ r_n = 33
    /\ rtask.retry_config.initial_delay = Millis(1)
    /\ r_delay = u32_MAX
    /\ r_delay # IdealDelay(rtask.retry_config, r_n)

\* C19: a stop_and_transcribe call does not own the pipeline mutex while it
\* waits (for the cancellation signal, a timer, the provider, a backoff
\* sleep, the rewrite) or while it waits to take the mutex again for its
\* last state update.
C19_NoLockAcrossAwait ==
    \A t \in Tasks :
        /\ InFlight(t) => ~tasks[t].guard
        /\ tasks[t].guard => (tasks[t].pc = "blocked" /\ wedged)

C19_Witness ==
    /\ \E t \in Tasks : tasks[t].pc = "race1" /\ tasks[t].phase = "sleep"
    /\ last_op.op = "update_config"
    /\ last_op.pre = "Transcribing"
    /\ mutex_free

\* C20: a stopped recording whose WAV is larger than a positive
\* max_recording_bytes is rejected with RecordingTooLarge, the state becomes
\* Error and no transcription attempt is made; a WAV within the limit (or
\* any WAV when the limit is 0) goes on: to Idle for stop_recording, to
\* Transcribing for stop_and_transcribe (which then ends in NoProvider when
\* no provider is registered).
C20_SizeLimit ==
    [][ ( /\ StopRecording \/ Phase1
          /\ state = "Recording"
          /\ last_op'.ret \notin {"hang", "AudioCapture"} )
        => LET w == last_op'.wav
               limit == config.max_recording_bytes
           IN  IF limit > 0 /\ w > limit
               THEN /\ last_op'.ret = "RecordingTooLarge"
                    /\ state' = "Error"
                    /\ \A t \in Tasks :
                          /\ tasks'[t].calls = tasks[t].calls
                          /\ tasks'[t].pc \in {"race1", "race2"} => tasks'[t] = tasks[t]
               ELSE IF last_op'.op = "stop_recording"
               THEN last_op'.ret = "Ok" /\ state' = "Idle"
               ELSE IF stt_current # None
               THEN last_op'.ret = "Transcribing" /\ state' = "Transcribing"
               ELSE last_op'.ret = "NoProvider" /\ state' = "Error" ]_vars

C20_Witness ==
    /\ last_op.op = "stop_and_transcribe"
    /\ last_op.ret = "RecordingTooLarge"
    /\ last_op.wav = 2
    /\ config.max_recording_bytes = 1
    /\ state = "Error"

\* C21: every successful start_recording installs a token that was never
\* handed out before and is not cancelled; a waiting stop_and_transcribe call
\* sees its token cancelled only by a cancel() or force_reset() that finds
\* this very token installed, so cancelling an earlier session leaves the
\* wait of a later session alone.
C21_FreshTokenPerSession ==
    [][ /\ (last_op' # last_op /\ last_op'.op = "start_recording" /\ last_op'.ret = "Ok")
           => /\ cancel_token' # NoToken
              /\ cancel_token' \notin cancelled'
              /\ cancel_token' >= next_token
              /\ cancel_token' # cancel_token
              /\ \A t \in Tasks : tasks[t].token # cancel_token'
        /\ \A t \in Tasks :
              ( /\ InFlight(t)
                /\ tasks[t].token \notin cancelled
                /\ tasks[t].token \in cancelled' )
              => /\ Cancel \/ ForceReset
                 /\ cancel_token = tasks[t].token
                 /\ tasks[t].session = tasks[t].token ]_vars

C21_Witness ==
    /\ 1 \in cancelled
    /\ 2 \notin cancelled
    /\ \E t \in Tasks :
          tasks[t].pc = "race1" /\ tasks[t].session = 2 /\ tasks[t].token = 2

\* C22: cancel() acts only in Recording and Transcribing: there it cancels
\* the session token, stops the capture if the state is Recording and sets
\* the state to Idle; called in Idle or Error it changes nothing (state,
\* token, capture and the cancelled tokens are what they were).
C22_CancelFrame ==
    [][ Cancel =>
          IF state \in {"Recording", "Transcribing"}
          THEN /\ state' = "Idle"
               /\ cancel_token' = NoToken
               /\ cancel_token # NoToken => cancel_token \in cancelled'
               /\ state = "Recording" => ~capture'.active
               /\ state = "Transcribing" => capture' = capture
          ELSE /\ state' = state
               /\ cancel_token' = cancel_token
               /\ capture' = capture
               /\ cancelled' = cancelled ]_vars

\* no session is active: the pipeline is Idle, no capture runs and no
\* stop_and_transcribe call is under way
NoSessionActive ==
    /\ state = "Idle"
    /\ ~capture.active
    /\ ~wedged
    /\ \A t \in Tasks : tasks[t].pc = "init"

AllQueriesDone ==
    \A q \in Callers : queries[q].pc = "idle" /\ queries[q].calls = MaxQueryCalls

\* C28: with no session active, concurrent callers of state(), is_recording()
\* and is_error() all complete: no state is reached in which a caller with a
\* call to make can never proceed, every caller finishes all its calls, and
\* every call returns the answer of the Idle state (Idle, false, false).
C28_ConcurrentQueriesComplete ==
    /\ [](NoSessionActive =>
            /\ \A q \in Callers :
                  queries[q].ans # None =>
                      queries[q].ans = IF queries[q].op = "state" THEN "Idle" ELSE "false"
            /\ \/ AllQueriesDone
               \/ \E q \in Callers : queries[q].pc = "locked"
               \/ mutex_free)
    /\ <>AllQueriesDone

C28_Witness ==
    /\ NoSessionActive
    /\ \E q1, q2, q3 \in Callers :
          /\ queries[q1].pc = "locked"
          /\ queries[q2].pc = "idle" /\ queries[q2].calls < MaxQueryCalls
          /\ queries[q3].calls = MaxQueryCalls
          /\ queries[q3].op = "state" /\ queries[q3].ans = "Idle"

\* C23: the sample path from the audio callback to the VAD worker is
\* bounded: the channel has a capacity of its own, so however far the VAD
\* worker lags the number of queued chunks stays below the cap that only the
\* exploration puts on it (at capacity the callback drops the chunk).
C23_VadQueueBounded == vad_q < MaxQueue

\* C24: after every append the length of the buffer is at most sample_rate *
\* channels * max_duration_secs, and the buffer holds the most recent samples
\* of everything appended, in order (the oldest were removed); 1000 Hz mono
\* with a 1 s limit keeps exactly the last 1000 of 2000 samples.
C24_BufferKeepsNewest ==
    LET n == Len(abuf.samples) IN
    /\ 10 * n <= abuf.sample_rate * abuf.channels * abuf.max_duration_tenths
    /\ n <= appended
    /\ n < appended => 10 * (n + 1) > abuf.sample_rate * abuf.channels * abuf.max_duration_tenths
    /\ abuf.samples = [i \in 1..n |-> appended - n + i]
    /\ (abuf.sample_rate = 1000 /\ appended = 2000) =>
          abuf.samples = [i \in 1..1000 |-> 1000 + i]

C24_Witness ==
    /\ abuf.sample_rate = 1000
    /\ appended = 2000
    /\ Len(abuf.samples) = 1000
    /\ abuf.samples[1] = 1001

\* the 16-bit value of a sample x (in quarters) clamped to [-1, 1]: the
\* integer part of x * 32767
Quantised(x) ==
    IF x >= 4 THEN 32767
    ELSE IF x <= -4 THEN -32767
    ELSE IF x >= 0 THEN (x * 32767) \div 4
    ELSE -((-x * 32767) \div 4)

\* C29: a buffer encoded to WAV and read back has the same number of
\* samples, the same channel count and the same sample rate, and every
\* sample read back is the original clamped to [-1, 1] and quantised to 16
\* bits.
C29_WavRoundTrip ==
    decoded.ok =>
        /\ wav.ok
        /\ Len(wav.data) = 2 * Len(abuf.samples)
        /\ Len(decoded.samples) = Len(abuf.samples)
        /\ decoded.channels = abuf.channels
        /\ decoded.sample_rate = abuf.sample_rate
        /\ \A i \in 1..Len(abuf.samples) :
              decoded.samples[i] = Quantised(Signal(abuf.samples[i]))

C29_Witness ==
    /\ decoded.ok
    /\ decoded.channels = 2
    /\ Len(decoded.samples) = 4
    /\ \E i, j, k \in 1..4 :
          /\ Signal(abuf.samples[i]) = 5 /\ decoded.samples[i] = 32767
          /\ Signal(abuf.samples[j]) = -8 /\ decoded.samples[j] = -32767
          /\ Signal(abuf.samples[k]) = -1 /\ decoded.samples[k] = -8191

\* what C25 and its amendment share: the event of a call is a SpeechStart
\* exactly when the call found the detector not speaking and its frame
\* completed a run of `start_run` speech frames, a SpeechEnd exactly when it
\* found it speaking and its frame completed a run of `end_run` silence
\* frames; the counters restart with every change of class.
EventsAtRuns(start_run, end_run) ==
    vad_hist.n > 0 =>
        /\ vad_hist.event.kind = "SpeechStart" <=>
              ( /\ ~vad_hist.was_speaking
                /\ vad_hist.class = "speech"
                /\ vad_hist.run = start_run )
        /\ vad_hist.event.kind = "SpeechEnd" <=>
              ( /\ vad_hist.was_speaking
                /\ vad_hist.class = "silence"
                /\ vad_hist.run = end_run )
        /\ detector.speech_frames = IF vad_hist.class = "speech" THEN vad_hist.run ELSE 0
        /\ detector.silence_frames = IF vad_hist.class = "silence" THEN vad_hist.run ELSE 0

\* C25 as stated: SpeechStart is emitted on exactly the frame that completes
\* a run of speech_frames_threshold consecutive speech frames from
\* not-speaking, SpeechEnd on exactly the frame that completes a run of
\* hangover_frames consecutive silence frames while speaking; a shorter run
\* that is interrupted produces no event and restarts the count.
C25_EventsAtThresholds ==
    EventsAtRuns(detector.config.speech_frames_threshold, detector.config.hangover_frames)

AtLeastOne(k) == IF k < 1 THEN 1 ELSE k

\* C25, amended: the same with runs of max(speech_frames_threshold, 1)
\* speech frames and max(hangover_frames, 1) silence frames: a threshold of
\* 0 acts as a threshold of 1, the event comes with the first frame of the
\* class.
C25_EventsAtThresholdsOrFirstFrame ==
    EventsAtRuns(AtLeastOne(detector.config.speech_frames_threshold),
                 AtLeastOne(detector.config.hangover_frames))

C25_Witness ==
    /\ detector.config.speech_frames_threshold = 0
    /\ detector.config.hangover_frames = 2
    /\ vad_hist.n = 3
    /\ vad_hist.was_speaking
    /\ vad_hist.event.kind = "SpeechEnd"
    /\ vad_hist.run = 2

\* C26: for any configuration (thresholds of 0 included), a frame of an
\* unbroken run of silence frames never produces a SpeechStart.
C26_SilenceNeverStarts ==
    (vad_hist.n > 0 /\ vad_hist.class = "silence") =>
        vad_hist.event.kind # "SpeechStart"

C26_Witness ==
    /\ detector.config.speech_frames_threshold = 0
    /\ detector.config.hangover_frames = 0
    /\ vad_hist.class = "silence"
    /\ vad_hist.run = vad_hist.n
    /\ vad_hist.n >= 3
    /\ ~detector.is_speaking

\* the number of frames the pre-roll buffer holds after n frames
PreRollLen == 
    IF vad_hist.n < detector.config.pre_roll_ms \div detector.config.frame_duration_ms
    THEN vad_hist.n
    ELSE detector.config.pre_roll_ms \div detector.config.frame_duration_ms

\* C27: after every process_frame the pre-roll buffer holds at most
\* pre_roll_ms / frame_duration_ms frames, the most recently processed ones,
\* oldest first; a SpeechStart carries the samples of the frames buffered at
\* that moment, oldest first, and there is one SpeechStart for each change
\* from not speaking to speaking.
C27_PreRollHoldsNewest ==
    vad_hist.n > 0 =>
        /\ Len(detector.pre_roll_buffer) = PreRollLen
        /\ Len(detector.pre_roll_buffer) * detector.config.frame_duration_ms <= detector.config.pre_roll_ms
        /\ detector.pre_roll_buffer =
              [i \in 1..PreRollLen |-> Frame(vad_hist.n - PreRollLen + i)]
        /\ vad_hist.event.kind = "SpeechStart" <=>
              (~vad_hist.was_speaking /\ detector.is_speaking)
        /\ vad_hist.event.kind = "SpeechStart" =>
              vad_hist.event.pre_roll =
                  [i \in 1..(2 * PreRollLen) |-> 2 * (vad_hist.n - PreRollLen) + i]
        /\ vad_hist.event.kind # "SpeechStart" => vad_hist.event.pre_roll = <<>>

C27_Witness ==
    /\ detector.config.pre_roll_ms = 25
    /\ detector.config.frame_duration_ms = 10
    /\ vad_hist.n = 4
    /\ vad_hist.event.kind = "SpeechStart"
    /\ vad_hist.event.pre_roll = <<5, 6, 7, 8>>

\* the logs most recent first: the current request, then the stored ones
\* from the last stored to the first, cut after `limit` entries
MostRecentFirst(logs, current, limit) ==
    LET all == current \o [i \in 1..Len(logs) |-> logs[Len(logs) - i + 1]]
    IN  IF limit = Nothing \/ Len(all) <= limit[1] THEN all
        ELSE [i \in 1..limit[1] |-> all[i]]

\* C30: get_logs returns the request logs most recent first: the current
\* request (if there is one) comes first, the stored requests follow in the
\* reverse order of their storage, and the result is cut to the limit; the
\* requests come out from the newest to the oldest.
C30_GetLogsMostRecentFirst ==
    [][ \A t \in LogThreads :
          (log_threads[t].pc = "get_logs" /\ log_threads'[t].pc = "idle") =>
             LET res == log_threads'[t].result IN
             /\ res = MostRecentFirst(store.logs, store.current, log_threads[t].limit)
             /\ log_threads[t].limit # Nothing => Len(res) <= log_threads[t].limit[1]
             /\ \A i, j \in 1..Len(res) : i < j => res[i].id > res[j].id ]_vars

C30_Witness ==
    \E t \in LogThreads :
        /\ log_threads[t].returned = "get_logs"
        /\ log_threads[t].limit = Some(2)
        /\ Len(store.logs) = 2
        /\ store.current # Nothing
        /\ log_threads[t].result = <<store.current[1], store.logs[2]>>
        /\ store.current[1].status = "InProgress"

\* C32: the last critical section of a stop_and_transcribe call whose session
\* was ended by cancel() or force_reset() leaves a session started afterwards
\* alone: it does not change that session's Recording or Transcribing state
\* and does not remove its cancellation token.
C32_StaleCallLeavesLaterSession ==
    [][ \A t \in Tasks :
          ( /\ InFlight(t)
            /\ tasks'[t].pc = "done"
            /\ tasks[t].token \in cancelled
            /\ session # tasks[t].session
            /\ state \in {"Recording", "Transcribing"} )
          => /\ state' = state
             /\ cancel_token' = cancel_token ]_vars

\* C33: whenever the pipeline mutex is free, the capture engine is active (a
\* capture handle with a running worker) exactly when the state is Recording.
C33_CaptureActiveIffRecording ==
    mutex_free =>
        ((capture.active /\ capture.worker = "running") <=> state = "Recording")

\* C35: whenever the pipeline mutex is free, a cancellation token is held,
\* and has not been cancelled, if the state is Recording or Transcribing, and
\* no token is held if the state is Idle or Error.
C35_TokenIffSessionActive ==
    mutex_free =>
        /\ state \in {"Recording", "Transcribing"} =>
               (cancel_token # NoToken /\ cancel_token \notin cancelled)
        /\ state \in {"Idle", "Error"} => cancel_token = NoToken

\* a second session is being transcribed after the first one was cancelled
C35_Witness ==
    /\ mutex_free
    /\ state = "Transcribing"
    /\ session = 2
    /\ cancel_token = 2
    /\ cancelled = {1}
    /\ \E t \in Tasks : tasks[t].pc = "race1" /\ tasks[t].token = 2

\* what C37 says of a stop_and_transcribe call: it returns NoProvider, the
\* capture is stopped, the state is Error, and no transcription attempt is
\* made (no call is left racing, no provider call is counted)
EndsInNoProvider ==
    /\ last_op'.op = "stop_and_transcribe"
    /\ last_op'.ret = "NoProvider"
    /\ ~capture'.active
    /\ state' = "Error"
    /\ \A t \in Tasks :
          /\ tasks'[t].calls = tasks[t].calls
          /\ tasks'[t] # tasks[t] =>
                (tasks'[t].pc = "done" /\ tasks'[t].result = Err("NoProvider"))

\* C37 as stated: every stop_and_transcribe called in Recording while no
\* transcription provider is current returns NoProvider, stops the capture
\* and leaves the state Error, without a transcription attempt.
C37_NoProviderAlways ==
    [][ (Phase1 /\ state = "Recording" /\ stt_current = None)
        => EndsInNoProvider ]_vars

\* C37, amended: the same for the calls whose capture stop returns a WAV
\* that is within the size limit; a call whose WAV cannot be encoded or is
\* too large ends with that error before the provider is looked up.
C37_NoProviderAfterAcceptedWav ==
    [][ ( /\ Phase1 /\ state = "Recording" /\ stt_current = None
          /\ last_op'.ret \notin {"hang", "AudioCapture"}
          /\ ~too_large(last_op'.wav, config.max_recording_bytes) )
        => EndsInNoProvider ]_vars

\* a recording started with a provider, whose provider was removed by a
\* configuration update before the stop
C37_Witness ==
    /\ last_op.op = "stop_and_transcribe"
    /\ last_op.ret = "NoProvider"
    /\ last_op.pre = "Recording"
    /\ last_op.wav = 2
    /\ state = "Error"
    /\ stt_current = None
    /\ \E t \in Tasks : /\ tasks[t].pc = "done"
                         /\ tasks[t].start_cfg # Nothing
                         /\ registered_provider(tasks[t].start_cfg[1]) # None

\* C34: every stop_and_transcribe call that has entered Transcribing
\* eventually returns, whatever the provider does, and the state does not
\* stay Transcribing: it becomes Idle or Error.
C34_TranscribingCallReturns ==
    /\ \A t \in Tasks : InFlight(t) ~> Done(t)
    /\ (state = "Transcribing") ~> (state \in {"Idle", "Error"})

\* C36: the WAV returned when a session is stopped holds only chunks the
\* callback delivered between that session's start and its stop: start
\* leaves an empty buffer, the WAV is the buffer as it is when stop() has
\* returned, with chunks of that session only, and nothing is appended to
\* the buffer once stop() has returned (until the next start).
C36_WavHoldsOwnSessionOnly ==
    [][ /\ CapStart => (buf_len' = 0 /\ buf_sessions' = {})
        /\ GetWav => /\ wav_out'.session = cap_session
                     /\ wav_out'.len = buf_len
                     /\ wav_out'.sessions \subseteq {cap_session}
        /\ (stop_pc \in {"returned", "wav"} /\ ~CapStart)
              => (~stream_alive /\ UNCHANGED <<buf_len, buf_sessions>>)
        /\ buf_sessions' \subseteq {cap_session'} ]_vars

C36_Witness ==
    /\ cap_session = 2
    /\ stop_pc = "wav"
    /\ wav_out = [session |-> 2, sessions |-> {2}, len |-> 1]
    /\ buf_len = 1

\* the kind of the last event other than None since the detector was
\* created or reset
LastEvent == IF vad_hist.event.kind # "None" THEN vad_hist.event.kind ELSE vad_hist.prev

\* C38: between two resets the events other than None alternate
\* SpeechStart, SpeechEnd, SpeechStart, ..., the first being a SpeechStart;
\* is_speaking is true exactly from a SpeechStart to the next SpeechEnd;
\* reset leaves the detector as new() creates it for the same configuration.
C38_EventsAlternate ==
    /\ [](/\ vad_hist.event.kind = "SpeechStart" => vad_hist.prev \in {None, "SpeechEnd"}
          /\ vad_hist.event.kind = "SpeechEnd" => vad_hist.prev = "SpeechStart"
          /\ detector.is_speaking <=> LastEvent = "SpeechStart")
    /\ [][VadReset => detector' = VoiceActivityDetector_new(detector.config)]_vars

\* after a reset: two speech frames (SpeechStart), then a SpeechEnd
C38_Witness ==
    /\ vad_hist.resets = 1
    /\ vad_hist.n = 3
    /\ vad_hist.event.kind = "SpeechEnd"
    /\ vad_hist.prev = "SpeechStart"
    /\ ~detector.is_speaking
    /\ detector.config.speech_frames_threshold = 2

\* the sequence is strictly increasing
Increasing(seq) == \A i, j \in 1..Len(seq) : i < j => seq[i] < seq[j]

\* C39: VadFrameProcessor accumulates partial input across calls: after
\* every process call less than one source frame of input and less than one
\* detector frame of resampled samples stay buffered; every input sample is
\* consumed once, in the order of arrival (the drained samples followed by
\* the buffered ones are the input stream, and what the detector was given
\* follows that order); the events of one call are in frame order.
C39_ProcessorAccumulates ==
    /\ Len(processor.frame_buffer) < source_frame_size(processor)
    /\ Len(processor.resampled_buffer) < frame_size(processor.vad)
    /\ proc_hist.consumed \o processor.frame_buffer = [i \in 1..proc_hist.fed |-> i]
    /\ Increasing(proc_hist.vad_in \o processor.resampled_buffer)
    /\ \A i \in 1..Len(proc_hist.vad_in) : proc_hist.vad_in[i] <= Len(proc_hist.consumed)
    /\ processor.source_sample_rate = VAD_RATE =>
           proc_hist.vad_in \o processor.resampled_buffer = proc_hist.consumed
    /\ Len(proc_hist.vad_in) = proc_hist.frames * frame_size(processor.vad)
    /\ \A i, j \in 1..Len(proc_hist.events) :
           i < j => proc_hist.events[i].frame < proc_hist.events[j].frame

\* two calls give less than a source frame; the third call completes two
\* source frames and returns two events
C39_Witness ==
    /\ proc_hist.calls = 3
    /\ proc_hist.fed = 6
    /\ proc_hist.frames = proc_hist.call_frames
    /\ proc_hist.call_frames = 2
    /\ Len(proc_hist.events) = 2
    /\ proc_hist.events[1].kind = "SpeechStart"
    /\ proc_hist.events[2].kind = "SpeechEnd"
    /\ processor.source_sample_rate = (3 * VAD_RATE) \div 2
    /\ processor.frame_buffer = <<>>

\* what C31 says of a call: at most max_keep .wav files remain, every
\* deleted file is at least as old as every .wav file that remains, and the
\* number returned is the number of files deleted
PrunedToMaxKeep ==
    /\ Cardinality(WavFiles(rec_dir)) <= prune_hist.max_keep
    /\ \A d \in prune_hist.before \ rec_dir, k \in WavFiles(rec_dir) :
           d.wav /\ d.mtime <= k.mtime
    /\ prune_hist.deleted = Cardinality(prune_hist.before \ rec_dir)
    /\ rec_dir \subseteq prune_hist.before

\* the call returned Ok and every deletion it attempted succeeded
PrunedWithoutFailure ==
    /\ prune_hist.calls > 0
    /\ prune_hist.ok
    /\ prune_hist.attempted \cap rec_dir = {}

WaitsForLogs(t) ==
    /\ log_threads[t].pc \in {"start_request", "complete_current"}
    /\ store.current_lock = t
    /\ store.current # Nothing
    /\ store.logs_lock \notin {None, t}

\* thread t holds the stored-logs lock and waits for the current-request
\* lock (get_logs, line 258)
WaitsForCurrent(t) ==
    /\ log_threads[t].pc = "get_logs"
    /\ store.logs_lock = t
    /\ store.current_lock \notin {None, t}

\* C40: no reachable state has one thread holding the current-request lock
\* while it waits for the stored-logs lock and another thread holding the
\* stored-logs lock while it waits for the current-request lock.
C40_NoLockOrderDeadlock ==
    ~ \E a, b \in LogThreads : a # b /\ WaitsForLogs(a) /\ WaitsForCurrent(b)

====
